---- MODULE Spec2Model ----
(***************************************************************************)
(* A model of luna: the zone routing graph (moon/route.py), the host       *)
(* configuration index (moon/syn.py), the source predicate and the zone    *)
(* loader (cfg.py) and the locked generator driver (luna.py,               *)
(* moon/lock.py).                                                          *)
(*                                                                         *)
(* Host names are sequences of characters: <<"a","1">> is the name a1 and  *)
(* <<>> is the empty name of a zone root.  Nodes live in an arena and are  *)
(* referred to by their index; zone 0 and node 0 stand for Python's None.  *)
(***************************************************************************)
EXTENDS Integers, Sequences, FiniteSets, TLC

VARIABLES
    g,        \* the ZoneSet: nodes (arena), _nodes, _canonical, _q
    zones,    \* ZoneConfig._zones, in section order: [root, hosts]
    stubs,    \* the host lists of the sections loaded so far
    arcs,     \* the arc() calls made so far: [frm, to, via, cost]
    srcs,     \* the zones set_src() was called on
    pc,       \* where the run of the zone graph stands
    ret,      \* what the last trace()/resolve() returned
    conf,     \* the Config index: blocks (arena), _blks, _ext_blks, _host_map,
              \* _wildcards, _ext_cache, _query_opts
    doc,      \* the input document the Config was parsed from
    calls,    \* the attach()/add_host()/inject() calls made on the Config
    conds,    \* ZoneConfig._conds, in section order: <<tz, subnets>>
    env,      \* the host's UTC offset and what the interface probe sees
    found,    \* the zone stubs after the smart host discovery, and its trail
    holder,   \* the process that holds the flock on <out>.lock, or 0
    procs,    \* the generator processes: where each stands, its `waited`, its buffer
    out,      \* the output file
    clock,    \* time.time(), in seconds
    writes,   \* the writes made to the output file: by whom, and who held the lock
    ctx,      \* the Environment: passes, and args as key -> (v, i)
    applied,  \* per key: its raw value, the passes called on it since it was
              \* assigned, and how many passes there were at its last lookup
    got       \* what the last lookup returned, and the entry it found

routeVars == <<g, zones, stubs, arcs, srcs, pc, ret>>
confVars == <<conf, doc, calls>>
zoneVars == <<conds, env, found>>
lockVars == <<holder, procs, out, clock, writes>>
\* what the zone graph's actions leave alone, and what the Config's do
envVars == <<ctx, applied, got>>
sysVars == <<zoneVars, lockVars, envVars>>
nonRouteVars == <<confVars, sysVars>>

(***************************************************************************)
(* Bounds and input alphabets.                                             *)
(***************************************************************************)
MaxZones == 3
MaxArcs == 2
MaxChain == 4
MaxChainArcs == 3

HostA == <<"a">>
AliasA1 == <<"a", "1">>
AliasA2 == <<"a", "2">>
HostB == <<"b">>
HostC == <<"c">>
HostD == <<"d">>
ProxyP == <<"p">>
DirectA == <<"d", ".", "a">>
DirectP == <<"d", ".", "p">>

\* The `host` values of the sections a zone file may hold, in file order.
HostMenu ==
    << << <<HostA, AliasA1, AliasA2>> >>,
       << <<HostA>> >>,
       << <<HostB>> >>,
       << <<HostC>> >>,
       << <<HostD>> >>,
       << <<DirectA>> >>,
       << <<HostC>>, <<HostD, HostC>> >> >>

\* What the general zone files are drawn from ...
RouteMenu == {1, 2, 3, 4}
Vias == {<<>>, HostA, AliasA2, HostB, HostC, ProxyP}
Costs == {20}
\* ... the zone files that may name a host twice, in two sections or in one
LoadMenu == {1, 2, 3, 7}
\* ... and the zone files of single-host zones linked by host names
ChainMenu == {2, 3, 4, 5}
ChainVias == {HostA, HostB, HostC, HostD}
ChainCosts == {20}

\* The lines and headers an input document is made of, and the hosts queried
MaxDoc == 3
MaxCalls == 2
ItemMenu ==
    << [kind |-> "line", hosts |-> <<>>, o |-> "User", values |-> <<<<"u">>>>],
       [kind |-> "line", hosts |-> <<>>, o |-> "user", values |-> <<<<"v">>>>],
       [kind |-> "line", hosts |-> <<>>, o |-> "IdentityFile", values |-> <<<<"k", "1">>>>],
       [kind |-> "line", hosts |-> <<>>, o |-> "IdentityFile", values |-> <<<<"k", "2">>>>],
       [kind |-> "line", hosts |-> <<>>, o |-> "HostName", values |-> <<<<"x">>>>],
       [kind |-> "host", hosts |-> <<HostA>>, o |-> "Host", values |-> <<HostA>>],
       [kind |-> "host", hosts |-> << <<"a", "*">> >>, o |-> "Host", values |-> << <<"a", "*">> >>],
       [kind |-> "host", hosts |-> <<HostC>>, o |-> "Host", values |-> <<HostC>>],
       [kind |-> "line", hosts |-> <<>>, o |-> "ProxyJump", values |-> <<<<"z">>>>],
       [kind |-> "host", hosts |-> <<AliasA2>>, o |-> "Host", values |-> <<AliasA2>>],
       [kind |-> "host", hosts |-> << <<"a", "?">> >>, o |-> "Host", values |-> << <<"a", "?">> >>],
       [kind |-> "host", hosts |-> <<AliasA2, <<"!", "a", "*">>>>, o |-> "Host",
        values |-> <<AliasA2, <<"!", "a", "*">>>>],
       [kind |-> "host", hosts |-> << <<"a", "*">>, <<"*", "2">> >>, o |-> "Host",
        values |-> << <<"a", "*">>, <<"*", "2">> >>],
       [kind |-> "line", hosts |-> <<>>, o |-> "HostName", values |-> <<<<"5">>>>],
       [kind |-> "line", hosts |-> <<>>, o |-> "HostName", values |-> <<<<"9">>>>] >>
\* the items of the documents in general, and of those the jumps are injected into
ConfMenu == 1..8
InjectMenu == {1, 6, 9, 10}
\* of those the hosts are discovered in: HostName x, 5 and 9 under a, c, a2
SmartMenu == {5, 6, 8, 10, 14, 15}
MaxSmartDoc == 4
\* the sections of the zone files read with a Config: the declared hosts, the
\* subnets and strict-host; a zone file has up to MaxSmartZones of them
SmartSections ==
    << [hosts |-> <<>>, subnets |-> <<<<5, 2>>>>, strict |-> FALSE],
       [hosts |-> << <<AliasA2>> >>, subnets |-> <<<<8, 1>>>>, strict |-> TRUE],
       [hosts |-> <<>>, subnets |-> <<<<8, 1>>, <<5, 2>>>>, strict |-> FALSE] >>
MaxSmartZones == 2
\* and of those whose headers have ?, negated and several * patterns
MatchMenu == {1, 6, 7, 11, 12, 13}
ConfHosts == {HostA, AliasA2, HostC}
\* the attach(name, host) calls made on small documents
AttachPairs == {<<HostC, HostA>>, <<HostA, HostC>>, <<AliasA2, HostA>>}

\* Zone files with conditions: up to MaxCondZones sections over CondMenu.
\* Addresses are WIDTH-bit numbers; a timezone is given in quarters of an hour
\* (every value the float holds exactly), so timezone * 3600 is 900 a quarter.
MaxCondZones == 2
WIDTH == 4
CondMenu == {2, 3, 4}
Timezones == {<<>>, <<0>>, <<22>>, <<32>>}
Offsets == {0, 19800, 28800}
Cidrs == {<<5, 2>>, <<8, 1>>}
CidrLists == {<<>>} \cup {<<x>> : x \in Cidrs} \cup {<<x, y>> : x, y \in Cidrs}
Interfaces == {<<5, 2>>, <<9, 2>>}
Gateways == {5, 9}

\* The documents and the hosts of the runs that may take the direct mode
MaxDirectDoc == 2
DirectHosts == {HostA, AliasA1, AliasA2, HostC, ProxyP, DirectA, DirectP}

\* The Environment: the keys and the values assigned to them, the passes
\* registered (at most MaxPasses), values counted modulo ValMod
EnvOrder == <<"x", "y">>
EnvKeys == {EnvOrder[j] : j \in 1..Len(EnvOrder)}
RawValues == {1, 2}
PassMenu == {"inc", "dbl", "stop"}
MaxPasses == 3
ValMod == 8

\* How many times a document is printed and read back
MaxPrints == 3

\* Generator processes on one output path, and how far the clock runs
MaxProcs == 2
MaxClock == 3

GroupNames(hosts) == UNION {{hosts[i][j] : j \in 1..Len(hosts[i])} : i \in 1..Len(hosts)}

(***************************************************************************)
(* Optional values.                                                        *)
(***************************************************************************)
None == [some |-> FALSE, val |-> <<>>]
Some(v) == [some |-> TRUE, val |-> v]

(***************************************************************************)
(* moon/route.py                                                           *)
(***************************************************************************)
INF == 1061109567

Arc(to, cost, alias) == [to |-> to, cost |-> cost, alias |-> alias]

Node(name, zone) ==
    [name |-> name, zone |-> zone, adj |-> <<>>, dist |-> INF,
     prev |-> <<>>, vis |-> FALSE, traced |-> FALSE]

\* Node.arc: self.adj.append(Arc(to, cost, alias))
node_arc(G, u, to, cost, alias) ==
    [G EXCEPT !.nodes[u].adj = Append(@, Arc(to, cost, alias))]

Dijkstra(dist, u) == [dist |-> dist, u |-> u]

\* Dijkstra.__lt__
Dijkstra_lt(x, y) == x.dist < y.dist

\* heapq._siftdown(heap, startpos, pos) with positions counted from 1
RECURSIVE _siftdown(_, _, _, _)
_siftdown(heap, startpos, pos, newitem) ==
    IF pos > startpos /\ Dijkstra_lt(newitem, heap[pos \div 2])
    THEN _siftdown([heap EXCEPT ![pos] = heap[pos \div 2]], startpos, pos \div 2, newitem)
    ELSE [heap EXCEPT ![pos] = newitem]

\* heapq._siftup(heap, pos): move the smaller child up until a leaf is hit,
\* then sift the displaced item down from there.
RECURSIVE _siftup(_, _, _, _)
_siftup(heap, startpos, pos, newitem) ==
    LET childpos == 2 * pos
        rightpos == childpos + 1
        child == IF rightpos <= Len(heap) /\ ~Dijkstra_lt(heap[childpos], heap[rightpos])
                 THEN rightpos ELSE childpos
    IN  IF childpos <= Len(heap)
        THEN _siftup([heap EXCEPT ![pos] = heap[child]], startpos, child, newitem)
        ELSE _siftdown([heap EXCEPT ![pos] = newitem], startpos, pos, newitem)

heappush(heap, item) == _siftdown(Append(heap, item), 1, Len(heap) + 1, item)

\* heapq.heappop: the popped item and the heap left
heappop(heap) ==
    LET lastelt == heap[Len(heap)]
        rest == SubSeq(heap, 1, Len(heap) - 1)
    IN  IF rest = <<>>
        THEN [item |-> lastelt, heap |-> rest]
        ELSE [item |-> heap[1], heap |-> _siftup(rest, 1, 1, lastelt)]

EmptyZoneSet == [nodes |-> <<>>, _nodes |-> <<>>, _canonical |-> <<>>, _q |-> <<>>]

\* dict lookups: _nodes and _canonical are sequences of <<key, node>> kept
\* in insertion order
Keys(d) == {d[i][1] : i \in 1..Len(d)}
Get(d, k) == (CHOOSE i \in 1..Len(d) : d[i][1] = k)
Lookup(d, k) == d[Get(d, k)][2]

\* ZoneSet._add: the new node is the last of the arena
_add(G, name, zone) ==
    LET G1 == [G EXCEPT !.nodes = Append(@, Node(name, zone))]
    IN  IF name # <<>>
        THEN [G1 EXCEPT !._nodes = Append(@, <<name, Len(G1.nodes)>>)]
        ELSE G1

\* ZoneSet.add, first loop: one canonical node per host group, the other
\* names of the group recorded in _canonical
RECURSIVE add_aliases(_, _, _, _)
add_aliases(G, aliases, j, canonical) ==
    IF j > Len(aliases) THEN G
    ELSE add_aliases([G EXCEPT !._canonical = Append(@, <<aliases[j], canonical>>)],
                     aliases, j + 1, canonical)

RECURSIVE add_hosts(_, _, _, _)
add_hosts(G, zone, hosts, i) ==
    IF i > Len(hosts) THEN G
    ELSE LET G1 == _add(G, hosts[i][1], zone)
         IN  add_hosts(add_aliases(G1, hosts[i], 2, Len(G1.nodes)), zone, hosts, i + 1)

\* ZoneSet.add, second loop: root -> host costs 10, host -> root is an alias arc
RECURSIVE add_root_arcs(_, _, _, _)
add_root_arcs(G, root, nodes, i) ==
    IF i > Len(nodes) THEN G
    ELSE add_root_arcs(
            node_arc(node_arc(G, root, nodes[i], 10, FALSE), nodes[i], root, 0, TRUE),
            root, nodes, i + 1)

\* ZoneSet.add: the zone set after the call; the zone made is Zone(root, nodes)
\* with root the first node added and nodes the canonical nodes
ZoneRoot(G) == Len(G.nodes) + 1
ZoneHosts(G, hosts) == [i \in 1..Len(hosts) |-> Len(G.nodes) + 1 + i]
add(G, zone, hosts) ==
    LET root == ZoneRoot(G)
        nodes == ZoneHosts(G, hosts)
        G1 == _add(G, <<>>, 0)
        G2 == add_hosts(G1, zone, hosts, 1)
    IN  add_root_arcs(G2, root, nodes, 1)

Zone(root, hosts) == [root |-> root, hosts |-> hosts]

\* ZoneSet.set_src
set_src(G, zone) ==
    LET u == zone.root
    IN  IF G.nodes[u].dist # 0
        THEN [G EXCEPT !.nodes[u].dist = 0, !._q = heappush(@, Dijkstra(0, u))]
        ELSE G

\* ZoneSet.arc; the call raises ValueError when `via` is unknown and there is
\* no target zone
arc_raises(G, to, via) ==
    via # <<>> /\ via \notin Keys(G._nodes) /\ via \notin Keys(G._canonical) /\ to = 0

\* an arc() whose alias node reaches its canonical host by a plain arc
arc_plain(G, zs, frm, to, via, cost) ==
    IF via # <<>>
    THEN IF via \in Keys(G._nodes)
         THEN node_arc(G, zs[frm].root, Lookup(G._nodes, via), cost, FALSE)
         ELSE IF via \in Keys(G._canonical)
         THEN LET host == Lookup(G._canonical, via)
                  G1 == _add(G, via, G.nodes[host].zone)
                  u == Len(G1.nodes)
              IN  node_arc(node_arc(G1, u, host, 0, FALSE), zs[frm].root, u, cost, FALSE)
         ELSE LET host == zs[to].root
                  G1 == _add(G, via, 0)
                  u == Len(G1.nodes)
              IN  node_arc(node_arc(G1, u, host, 0, FALSE), zs[frm].root, u, cost, FALSE)
    ELSE node_arc(G, zs[frm].root, zs[to].root, cost, FALSE)

arc(G, zs, frm, to, via, cost) ==
    IF via # <<>>
    THEN IF via \in Keys(G._nodes)
         THEN \* A host?
              node_arc(G, zs[frm].root, Lookup(G._nodes, via), cost, FALSE)
         ELSE IF via \in Keys(G._canonical)
         THEN \* An alias?
              LET host == Lookup(G._canonical, via)
                  G1 == _add(G, via, G.nodes[host].zone)
                  u == Len(G1.nodes)
              IN  node_arc(node_arc(G1, u, host, 0, TRUE), zs[frm].root, u, cost, FALSE)
         ELSE \* An arbitrary hostname.
              LET host == zs[to].root
                  G1 == _add(G, via, 0)
                  u == Len(G1.nodes)
              IN  node_arc(node_arc(G1, u, host, 0, FALSE), zs[frm].root, u, cost, FALSE)
    ELSE node_arc(G, zs[frm].root, zs[to].root, cost, FALSE)

\* a loop over u.adj that sets the distance of unreached nodes only
RECURSIVE relax_unseen(_, _, _)
relax_unseen(G, u, i) ==
    IF i > Len(G.nodes[u].adj) THEN G
    ELSE LET e == G.nodes[u].adj[i]
             v == e.to
             t == G.nodes[u].dist + e.cost
         IN  IF G.nodes[v].dist = INF
             THEN relax_unseen([G EXCEPT !.nodes[v].dist = t,
                                         !.nodes[v].prev = <<u, e>>,
                                         !._q = heappush(@, Dijkstra(t, v))], u, i + 1)
             ELSE relax_unseen(G, u, i + 1)

\* a loop over u.adj that stops after the first arc
relax_first(G, u, i) ==
    IF i > Len(G.nodes[u].adj) \/ i > 1 THEN G
    ELSE LET e == G.nodes[u].adj[i]
             v == e.to
             t == G.nodes[u].dist + e.cost
         IN  IF G.nodes[v].dist > t
             THEN [G EXCEPT !.nodes[v].dist = t,
                            !.nodes[v].prev = <<u, e>>,
                            !._q = heappush(@, Dijkstra(t, v))]
             ELSE G

\* ZoneSet.route, the loop over u.adj
RECURSIVE relax(_, _, _)
relax(G, u, i) ==
    IF i > Len(G.nodes[u].adj) THEN G
    ELSE LET e == G.nodes[u].adj[i]
             v == e.to
             t == G.nodes[u].dist + e.cost
         IN  IF G.nodes[v].dist > t
             THEN relax([G EXCEPT !.nodes[v].dist = t,
                                  !.nodes[v].prev = <<u, e>>,
                                  !._q = heappush(@, Dijkstra(t, v))], u, i + 1)
             ELSE relax(G, u, i + 1)

\* ZoneSet.route
RECURSIVE route(_)
route(G) ==
    IF G._q = <<>> THEN G
    ELSE LET top == heappop(G._q)
             u == top.item.u
             G1 == [G EXCEPT !._q = top.heap]
         IN  IF ~G1.nodes[u].vis
             THEN route(relax([G1 EXCEPT !.nodes[u].vis = TRUE], u, 1))
             ELSE route(G1)

\* a _find that keeps the name of a node reached by an alias arc
RECURSIVE _find_all(_, _)
_find_all(G, u) ==
    LET self == G.nodes[u]
    IN  IF self.prev # <<>>
        THEN LET r == _find_all(G, self.prev[1])
             IN  IF self.name # <<>> THEN Append(r, self.name) ELSE r
        ELSE IF self.name # <<>> THEN <<self.name>> ELSE <<>>

\* Node._find
RECURSIVE _find(_, _)
_find(G, u) ==
    LET self == G.nodes[u]
    IN  IF self.prev # <<>>
        THEN LET r == _find(G, self.prev[1])
             IN  IF self.name # <<>> /\ ~self.prev[2].alias
                 THEN Append(r, self.name)
                 ELSE r
        ELSE IF self.name # <<>> THEN <<self.name>> ELSE <<>>

\* Node.find
find(G, u) == IF G.nodes[u].dist < INF THEN Some(_find(G, u)) ELSE None

\* ZoneSet.trace, the walk that marks the chain of predecessors
RECURSIVE mark_traced(_, _)
mark_traced(G, u) ==
    LET G1 == [G EXCEPT !.nodes[u].traced = TRUE]
    IN  IF G.nodes[u].prev # <<>> THEN mark_traced(G1, G.nodes[u].prev[1]) ELSE G1

\* ZoneSet.trace (name is a key of _nodes; otherwise KeyError)
trace(G, name) == find(G, Lookup(G._nodes, name))
trace_state(G, name) ==
    IF trace(G, name).some THEN mark_traced(G, Lookup(G._nodes, name)) ELSE G

\* a join with no separator
RECURSIVE join_nosep(_)
join_nosep(way) ==
    IF Len(way) = 0 THEN <<>> ELSE way[1] \o join_nosep(Tail(way))

\* ','.join(way)
RECURSIVE join(_)
join(way) ==
    IF Len(way) = 0 THEN <<>>
    ELSE IF Len(way) = 1 THEN way[1]
    ELSE way[1] \o <<",">> \o join(Tail(way))

\* ZoneSet.resolve: None unless find() is a non-empty path
resolve(G, name) ==
    LET way == find(G, Lookup(G._nodes, name))
    IN  IF way.some /\ way.val # <<>>
        THEN Some(<<way.val[Len(way.val)], join(SubSeq(way.val, 1, Len(way.val) - 1))>>)
        ELSE None

(***************************************************************************)
(* moon/syn.py.  A directive is its option as written and its values; a    *)
(* line is the text of a directive (option, values, what follows them on   *)
(* the line) and, for a Line, the block it was read from (blk = 0 for a    *)
(* plain str).  Values and comments are sequences of characters/tokens.    *)
(***************************************************************************)
\* str.lower on the option spellings in use
lower(s) ==
    CASE s = "User" -> "user"
      [] s = "HostName" -> "hostname"
      [] s = "Hostname" -> "hostname"
      [] s = "IdentityFile" -> "identityfile"
      [] s = "CertificateFile" -> "certificatefile"
      [] s = "ProxyJump" -> "proxyjump"
      [] s = "Host" -> "host"
      [] s = "Match" -> "match"
      [] OTHER -> s

Directive(o, values) == [_opt |-> o, values |-> values]
\* Directive.opt
opt(d) == lower(d._opt)
\* Directive.__bool__
Directive_bool(d) == opt(d) # ""
\* Directive.__eq__
Directive_eq(d, e) == opt(d) = opt(e) /\ d.values = e.values

\* a plain str line: option, values and the comment that follows them
Str(o, values, rest) ==
    [pre |-> <<>>, _opt |-> o, values |-> values, rest |-> rest, blk |-> 0]
\* Directive.parse(line): shlex.split(line, comments=True)
Directive_parse(line) == Directive(line._opt, line.values)
\* Line(str(d), blk, d): str(d) keeps the option and the values only
Line(d, blk) ==
    [pre |-> <<>>, _opt |-> d._opt, values |-> d.values, rest |-> <<>>, blk |-> blk]
dir(line) == Directive(line._opt, line.values)
\* str.__eq__ / str.__hash__ of a line: the text, whatever its origin
text(line) == <<line.pre, line._opt, line.values, line.rest>>
isLine(line) == line.blk # 0

\* Block.__init__; `no` is the global blk_no at creation
Block(header, hosts, ext, comment, no) ==
    [header |-> header, hosts |-> hosts, lines |-> <<>>, ext |-> ext,
     comment |-> comment, no |-> no]

\* fnmatch.fnmatch on names without brackets: * and ?
RECURSIVE fnmatch(_, _)
fnmatch(name, pat) ==
    IF pat = <<>> THEN name = <<>>
    ELSE IF Head(pat) = "*"
    THEN fnmatch(name, Tail(pat)) \/ (name # <<>> /\ fnmatch(Tail(name), pat))
    ELSE /\ name # <<>>
         /\ Head(pat) = "?" \/ Head(pat) = Head(name)
         /\ fnmatch(Tail(name), Tail(pat))

\* Block.test: a negated pattern that matches returns False at once
RECURSIVE test_from(_, _, _, _)
test_from(hosts, host, i, hit) ==
    IF i > Len(hosts) THEN hit
    ELSE LET pattern == hosts[i]
         IN  IF pattern[1] = "!"
             THEN IF fnmatch(host, Tail(pattern)) THEN FALSE
                  ELSE test_from(hosts, host, i + 1, hit)
             ELSE test_from(hosts, host, i + 1, hit \/ fnmatch(host, pattern))
test(blk, host) == test_from(blk.hosts, host, 1, FALSE)

\* Block.trimmed of block b: a Line as it is, a str as a Line of b unless
\* its directive is empty
RECURSIVE trimmed_from(_, _, _)
trimmed_from(lines, b, i) ==
    IF i > Len(lines) THEN <<>>
    ELSE LET line == lines[i]
             d == Directive_parse(line)
         IN  (IF isLine(line) THEN <<line>>
              ELSE IF Directive_bool(d) THEN <<Line(d, b)>>
              ELSE <<>>) \o trimmed_from(lines, b, i + 1)
trimmed(cf, b) == trimmed_from(cf.blocks[b].lines, b, 1)

\* Block.__bool__
Block_bool(blk) == blk.lines # <<>>

\* dicts as sequences of <<key, value>> in insertion order
Has(d, k) == \E i \in 1..Len(d) : d[i][1] = k
Put(d, k, v) == IF Has(d, k) THEN [d EXCEPT ![Get(d, k)] = <<k, v>>] ELSE Append(d, <<k, v>>)

\* Config before the first line is read: the default block is block 1
DefaultHeader == [kw |-> "", args |-> <<>>, note |-> <<>>]
EmptyConfig ==
    [blocks |-> <<Block(DefaultHeader, <<<<"*">>>>, FALSE, <<>>, 0)>>,
     _blks |-> <<>>, _ext_blks |-> <<>>, _host_map |-> <<>>, _wildcards |-> <<>>,
     _ext_cache |-> <<>>, _query_opts |-> {}]

\* Config._push_blk, the loop over blk.hosts: has_wildcards is reset on
\* every turn, so every pattern with a * appends the block
RECURSIVE push_hosts(_, _, _)
push_hosts(cf, b, i) ==
    IF i > Len(cf.blocks[b].hosts) THEN cf
    ELSE LET host == cf.blocks[b].hosts[i]
         IN  IF host[1] # "!"
             THEN IF \E k \in 1..Len(host) : host[k] = "*"
                  THEN push_hosts([cf EXCEPT !._wildcards = Append(@, b)], b, i + 1)
                  ELSE push_hosts(
                          [cf EXCEPT !._host_map =
                              IF Has(@, host)
                              THEN Put(@, host, Append(Lookup(@, host), b))
                              ELSE Append(@, <<host, <<b>>>>)], b, i + 1)
             ELSE push_hosts(cf, b, i + 1)

\* Config._push_blk
_push_blk(cf, b, ext) ==
    push_hosts(IF ext THEN [cf EXCEPT !._ext_blks = Append(@, b)]
               ELSE [cf EXCEPT !._blks = Append(@, b)], b, 1)

\* Config.__init__, the loop over the lines of fp; `blk` is the block being
\* filled.  An item of the document is a Host header, a Match header, a
\* blank line or a line of another kind; a header is kept as it is written.
RECURSIVE read_lines(_, _, _, _)
read_lines(cf, blk, items, i) ==
    IF i > Len(items) THEN _push_blk(cf, blk, FALSE)
    ELSE LET item == items[i]
             new == Len(cf.blocks) + 1
         IN  IF item.kind = "host"
             THEN read_lines(
                     _push_blk([cf EXCEPT !.blocks = Append(@,
                                   Block([kw |-> item.line._opt, args |-> item.line.values,
                                          note |-> item.line.rest],
                                         item.hosts, FALSE, <<>>, new - 1))],
                               blk, FALSE),
                     new, items, i + 1)
             ELSE IF item.kind = "match"
             THEN read_lines(
                     _push_blk([cf EXCEPT !.blocks = Append(@,
                                   Block([kw |-> item.line._opt, args |-> item.line.values,
                                          note |-> item.line.rest],
                                         <<>>, FALSE, <<>>, new - 1))],
                               blk, FALSE),
                     new, items, i + 1)
             ELSE IF item.kind = "blank"
             THEN read_lines(cf, blk, items, i + 1)
             ELSE read_lines([cf EXCEPT !.blocks[blk].lines = Append(@, item.line)],
                             blk, items, i + 1)

\* Config.__init__
Config(items) ==
    LET cf == read_lines(EmptyConfig, 1, items, 1)
    IN  IF Block_bool(cf.blocks[1])
        THEN [cf EXCEPT !.blocks[1].header =
                 [kw |-> "Host", args |-> <<<<"*">>>>, note |-> <<"  # Default">>]]
        ELSE cf

\* the sort key (not blk.ext, blk.no) of Config._query
blk_before(cf, x, y) ==
    \/ cf.blocks[x].ext /\ ~cf.blocks[y].ext
    \/ cf.blocks[x].ext = cf.blocks[y].ext /\ cf.blocks[x].no < cf.blocks[y].no

RECURSIVE sorted_blks(_, _)
sorted_blks(cf, S) ==
    IF S = {} THEN <<>>
    ELSE LET x == CHOOSE x \in S : \A y \in S \ {x} : blk_before(cf, x, y)
         IN  <<x>> \o sorted_blks(cf, S \ {x})

\* a loop that yields every line, seen option or not
RECURSIVE query_lines_all(_, _, _)
query_lines_all(lines, i, acc) ==
    IF i > Len(lines) THEN acc
    ELSE query_lines_all(lines, i + 1,
            [lines |-> Append(acc.lines, lines[i]),
             opts |-> acc.opts \cup {opt(dir(lines[i]))}])

\* a loop that takes the first occurrence of every option, identityfile and
\* certificatefile too
RECURSIVE query_lines_once(_, _, _)
query_lines_once(lines, i, acc) ==
    IF i > Len(lines) THEN acc
    ELSE LET o == opt(dir(lines[i]))
         IN  IF o \notin acc.opts
             THEN query_lines_once(lines, i + 1,
                     [lines |-> Append(acc.lines, lines[i]), opts |-> acc.opts \cup {o}])
             ELSE query_lines_once(lines, i + 1, acc)

\* Config._query, the loop over the lines of the blocks in order: identityfile
\* and certificatefile lines are all yielded, another option once.  The result
\* is the lines yielded and the options seen (vis, kept in _query_opts).
RECURSIVE query_lines(_, _, _)
query_lines(lines, i, acc) ==
    IF i > Len(lines) THEN acc
    ELSE LET line == lines[i]
             o == opt(dir(line))
         IN  IF o \in {"identityfile", "certificatefile"}
             THEN query_lines(lines, i + 1, [acc EXCEPT !.lines = Append(@, line)])
             ELSE IF o \notin acc.opts
             THEN query_lines(lines, i + 1,
                              [lines |-> Append(acc.lines, line), opts |-> acc.opts \cup {o}])
             ELSE query_lines(lines, i + 1, acc)

RECURSIVE query_blks(_, _, _, _)
query_blks(cf, blks, k, acc) ==
    IF k > Len(blks) THEN acc
    ELSE query_blks(cf, blks, k + 1, query_lines(trimmed(cf, blks[k]), 1, acc))

\* the blocks Config._query collects for a host
query_set(cf, host) ==
    (IF Has(cf._host_map, host)
     THEN {Lookup(cf._host_map, host)[i] : i \in 1..Len(Lookup(cf._host_map, host))}
     ELSE {})
    \cup {cf._wildcards[i] : i \in {j \in 1..Len(cf._wildcards) :
                                      test(cf.blocks[cf._wildcards[j]], host)}}

\* Config._query
_query(cf, host) ==
    query_blks(cf, sorted_blks(cf, query_set(cf, host)), 1, [lines |-> <<>>, opts |-> {}])

\* the sort key (line.blk.ext, line.blk.no) of Config.query
line_before(cf, x, y) ==
    \/ ~cf.blocks[x.blk].ext /\ cf.blocks[y.blk].ext
    \/ cf.blocks[x.blk].ext = cf.blocks[y.blk].ext /\ cf.blocks[x.blk].no < cf.blocks[y.blk].no

\* sorted(lines, key=...): a stable sort
RECURSIVE sorted_lines(_, _)
sorted_lines(cf, lines) ==
    IF lines = <<>> THEN <<>>
    ELSE LET i == CHOOSE i \in 1..Len(lines) :
                     \A j \in 1..Len(lines) : ~line_before(cf, lines[j], lines[i])
             first == lines[i].blk
         IN  SelectSeq(lines, LAMBDA l : l.blk = first)
               \o sorted_lines(cf, SelectSeq(lines, LAMBDA l : l.blk # first))

\* Config.query
query(cf, host) == sorted_lines(cf, _query(cf, host).lines)

\* Config.add_host, the hosts given that the block does not list yet
RECURSIVE new_hosts(_, _, _)
new_hosts(hosts, old_hosts, i) ==
    IF i > Len(hosts) THEN <<>>
    ELSE (IF hosts[i] \in old_hosts THEN <<>> ELSE <<hosts[i]>>)
            \o new_hosts(hosts, old_hosts, i + 1)

\* Config.add_host, the loop that lists block b under each new host
RECURSIVE map_hosts(_, _, _, _)
map_hosts(cf, hosts, b, i) ==
    IF i > Len(hosts) THEN cf
    ELSE map_hosts(
            [cf EXCEPT !._host_map =
                IF Has(@, hosts[i]) /\ Lookup(@, hosts[i]) # <<>>
                THEN Put(@, hosts[i], Append(Lookup(@, hosts[i]), b))
                ELSE Put(@, hosts[i], <<b>>)],
            hosts, b, i + 1)

\* Config.add_host: the Config after the call.  The cache is keyed by the
\* texts of the lines; a cached block without lines is falsy and is not reused.
add_host(cf, hosts, lines, comment) ==
    LET key == [i \in 1..Len(lines) |-> text(lines[i])]
        hit == Has(cf._ext_cache, key) /\ Block_bool(cf.blocks[Lookup(cf._ext_cache, key)])
    IN  IF hit
        THEN LET b == Lookup(cf._ext_cache, key)
                 blk == cf.blocks[b]
                 cf1 == IF comment # <<>>
                        THEN [cf EXCEPT !.blocks[b].comment =
                                 IF blk.comment # <<>> /\ blk.comment # comment
                                 THEN blk.comment \o <<"; ">> \o comment
                                 ELSE comment]
                        ELSE cf
                 more == new_hosts(hosts, {blk.hosts[i] : i \in 1..Len(blk.hosts)}, 1)
             IN  IF more # <<>>
                 THEN map_hosts([cf1 EXCEPT !.blocks[b].header.args = @ \o more,
                                            !.blocks[b].hosts = @ \o more],
                                more, b, 1)
                 ELSE cf1
        ELSE LET b == Len(cf.blocks) + 1
                 blk == [Block([kw |-> "Host", args |-> hosts, note |-> <<>>],
                               hosts, TRUE, comment, b - 1) EXCEPT !.lines = lines]
                 cf1 == _push_blk([cf EXCEPT !.blocks = Append(@, blk)], b, TRUE)
             IN  [cf1 EXCEPT !._ext_cache = Put(@, key, b)]

\* an attach that takes the lines in the order query() gives them
attach_sorted(cf, name, host) ==
    IF name # host
    THEN LET old == _query(cf, name).lines
             q == _query(cf, host)
             lines == SelectSeq(sorted_lines(cf, q.lines),
                          LAMBDA l : ~\E k \in 1..Len(old) : Directive_eq(dir(l), dir(old[k])))
             more == IF "hostname" \notin q.opts
                     THEN <<Str("Hostname", <<host>>, <<>>)>> ELSE <<>>
         IN  add_host([cf EXCEPT !._query_opts = q.opts], <<name>>, lines \o more,
                      <<"inherits from ">> \o host)
    ELSE cf

\* an attach that never adds the Hostname line
attach_bare(cf, name, host) ==
    IF name # host
    THEN LET old == _query(cf, name).lines
             q == _query(cf, host)
             lines == SelectSeq(q.lines,
                          LAMBDA l : ~\E k \in 1..Len(old) : Directive_eq(dir(l), dir(old[k])))
         IN  add_host([cf EXCEPT !._query_opts = q.opts], <<name>>, lines,
                      <<"inherits from ">> \o host)
    ELSE cf

\* Config.attach: the lines of host that name does not have yet, in the order
\* _query yields them, and "Hostname host" unless the query of host saw a
\* hostname
attach(cf, name, host) ==
    IF name # host
    THEN LET old == _query(cf, name).lines
             q == _query(cf, host)
             lines == SelectSeq(q.lines,
                          LAMBDA l : ~\E k \in 1..Len(old) : Directive_eq(dir(l), dir(old[k])))
             more == IF "hostname" \notin q.opts
                     THEN <<Str("Hostname", <<host>>, <<>>)>> ELSE <<>>
         IN  add_host([cf EXCEPT !._query_opts = q.opts], <<name>>, lines \o more,
                      <<"inherits from ">> \o host)
    ELSE cf

\* ', '.join(way)
RECURSIVE join_way(_)
join_way(way) ==
    IF Len(way) = 0 THEN <<>>
    ELSE IF Len(way) = 1 THEN way[1]
    ELSE way[1] \o <<", ">> \o join_way(Tail(way))

\* ZoneSet.inject, the loop over self._nodes.values()
RECURSIVE inject_from(_, _, _)
inject_from(G, cf, i) ==
    IF i > Len(G._nodes) THEN cf
    ELSE LET u == G._nodes[i][2]
             target == G.nodes[u].name
             way == find(G, u)
         IN  IF target # <<>> /\ way.some /\ way.val # <<>>
             THEN LET n == Len(way.val)
                      cf1 == attach(cf, target, way.val[n])
                  IN  IF n >= 2
                      THEN inject_from(G,
                              add_host(cf1, <<target>>,
                                       <<Str("ProxyJump", <<way.val[n - 1]>>, <<>>)>>,
                                       <<"[">> \o join_way(SubSeq(way.val, 1, n - 1)) \o <<"]">>),
                              i + 1)
                      ELSE inject_from(G, cf1, i + 1)
             ELSE inject_from(G, cf, i + 1)

\* ZoneSet.inject
inject(G, cf) == inject_from(G, cf, 1)

\* A line of a printed document: the leading blanks, the option and the
\* values, and what follows them on the line.
TextLine(pre, o, values, rest) == [pre |-> pre, _opt |-> o, values |-> values, rest |-> rest]
\* print(): an empty line
BlankLine == TextLine(<<>>, "", <<>>, <<>>)

\* Block.print, the header: header, and '  # ' + comment when there is one
print_header(blk) ==
    TextLine(<<>>, blk.header.kw, blk.header.args,
             IF blk.comment # <<>> THEN blk.header.note \o <<"  # ">> \o blk.comment
             ELSE blk.header.note)

\* Block.print, the loop over the lines: two blanks before a line of a
\* synthesised block, and the header of the origin after the first of the
\* Lines taken from one block
RECURSIVE print_lines(_, _, _, _)
print_lines(cf, blk, i, last_ref) ==
    IF i > Len(blk.lines) THEN <<>>
    ELSE LET line == blk.lines[i]
             pre == IF blk.ext THEN <<"  ">> \o line.pre ELSE line.pre
             origin == cf.blocks[line.blk].header
             noted == isLine(line) /\ line.blk # last_ref /\ origin.kw # ""
         IN  <<TextLine(pre, line._opt, line.values,
                        IF noted
                        THEN line.rest \o <<"  # ", origin.kw>> \o origin.args \o origin.note
                        ELSE line.rest)>>
             \o print_lines(cf, blk, i + 1, line.blk)

\* Block.print
Block_print(cf, b) ==
    <<print_header(cf.blocks[b])>> \o print_lines(cf, cf.blocks[b], 1, 0) \o <<BlankLine>>

RECURSIVE print_blks(_, _, _)
print_blks(cf, blks, i) ==
    IF i > Len(blks) THEN <<>> ELSE Block_print(cf, blks[i]) \o print_blks(cf, blks, i + 1)

\* Config.print(file, separator): the synthesised blocks, the separator
\* (<<>> for None), the blocks of the input
Config_print(cf, separator) ==
    print_blks(cf, cf._ext_blks, 1) \o separator \o print_blks(cf, cf._blks, 1)

\* Config.__init__ on a printed document: what the loop makes of each line
read_text(lines) ==
    [i \in 1..Len(lines) |->
        LET d == Directive(lines[i]._opt, lines[i].values)
        IN  [kind |-> IF opt(d) = "host" THEN "host"
                      ELSE IF opt(d) = "match" THEN "match"
                      ELSE IF lines[i]._opt = "" /\ lines[i].rest = <<>> THEN "blank"
                      ELSE "line",
             hosts |-> IF opt(d) = "host" THEN d.values ELSE <<>>,
             line |-> [pre |-> lines[i].pre, _opt |-> lines[i]._opt,
                       values |-> lines[i].values, rest |-> lines[i].rest, blk |-> 0]]]

(***************************************************************************)
(* cfg.py, ZoneConfig.__init__: the sections of the zone file are read     *)
(* and validated, then every zone is added, then every arc.                *)
(***************************************************************************)
NoRet == [op |-> "none", name |-> <<>>, trace |-> None, resolve |-> None]

RouteInit ==
    /\ g = EmptyZoneSet
    /\ zones = <<>>
    /\ stubs = <<>>
    /\ arcs = <<>>
    /\ srcs = {}
    /\ pc = "read"
    /\ ret = NoRet

\* the names seen by the validation loop so far (`vis`)
Vis == UNION {GroupNames(HostMenu[stubs[i]]) : i \in 1..Len(stubs)}

\* the names of a section's host groups, in the order the loop meets them
RECURSIVE flat(_, _)
flat(hosts, i) == IF i > Len(hosts) THEN <<>> ELSE hosts[i] \o flat(hosts, i + 1)

\* a check against the names of the earlier sections only
RECURSIVE first_dup_earlier(_, _, _)
first_dup_earlier(names, seen, i) ==
    IF i > Len(names) THEN <<>>
    ELSE IF names[i] \in seen THEN <<names[i]>>
    ELSE first_dup_earlier(names, seen, i + 1)

\* cfg.py 97-101: the first alias that is in vis already; every alias met is
\* added to vis
RECURSIVE first_dup(_, _, _)
first_dup(names, seen, i) ==
    IF i > Len(names) THEN <<>>
    ELSE IF names[i] \in seen THEN <<names[i]>>
    ELSE first_dup(names, seen \cup {names[i]}, i + 1)

\* cfg.py 92-111: one section is read; a name seen before raises
\* ValueError('Duplicate name {alias} in zone {sect}')
ReadSection(i, max) ==
    /\ pc = "read"
    /\ Len(stubs) < max
    /\ \A k \in 1..Len(stubs) : stubs[k] < i
    /\ LET dup == first_dup(flat(HostMenu[i], 1), Vis, 1)
       IN  IF dup # <<>>
           THEN /\ pc' = "error"
                /\ ret' = [op |-> "ValueError", name |-> dup[1], sect |-> i,
                           trace |-> None, resolve |-> None]
                /\ UNCHANGED stubs
           ELSE /\ pc' = "read"
                /\ stubs' = Append(stubs, i)
                /\ UNCHANGED ret
    /\ UNCHANGED <<g, zones, arcs, srcs, nonRouteVars>>

\* cfg.py 154-156: zones[sect] = g.add(hosts), in section order
AddZone ==
    /\ pc \in {"read", "add"}
    /\ Len(zones) < Len(stubs)
    /\ LET hosts == HostMenu[stubs[Len(zones) + 1]]
       IN  /\ g' = add(g, Len(zones) + 1, hosts)
           /\ zones' = Append(zones, Zone(ZoneRoot(g), ZoneHosts(g, hosts)))
    /\ pc' = "add"
    /\ UNCHANGED <<stubs, arcs, srcs, ret, nonRouteVars>>

AllAdded == Len(zones) = Len(stubs) /\ Len(zones) > 0

\* cfg.py 194-201: the arcs of the sections, in section order.  parse_arc
\* gives an empty `via` only together with a target zone.  The history keeps
\* what arc() reads in every case: the zone, the via and the cost.
ArcCall(frm, to, via, cost, max) ==
    /\ pc \in {"add", "arc"}
    /\ AllAdded
    /\ Len(arcs) < max
    /\ \A k \in 1..Len(arcs) : arcs[k].frm <= frm
    /\ via = <<>> => to # 0
    /\ IF arc_raises(g, to, via)
       THEN pc' = "error" /\ UNCHANGED <<g, arcs>>
       ELSE /\ pc' = "arc"
            /\ g' = arc(g, zones, frm, to, via, cost)
            /\ arcs' = Append(arcs, [frm |-> frm, via |-> via, cost |-> cost])
    /\ UNCHANGED <<zones, stubs, srcs, ret, nonRouteVars>>

\* cfg.py 213-215: set_src on the zones that are sources, in section order
RECURSIVE set_srcs(_, _, _, _)
set_srcs(G, zs, S, z) ==
    IF z > Len(zs) THEN G
    ELSE set_srcs(IF z \in S THEN set_src(G, zs[z]) ELSE G, zs, S, z + 1)

\* cfg.py 211-217, ZoneConfig.route: the sources are marked, then g.route()
RouteFrom(S) ==
    /\ pc \in {"add", "arc"}
    /\ AllAdded
    /\ g' = route(set_srcs(g, zones, S, 1))
    /\ srcs' = S
    /\ pc' = "routed"
    /\ UNCHANGED <<zones, stubs, arcs, ret, nonRouteVars>>

\* cfg.py 219-222: ZoneConfig.route(host) traces the host of the run
Trace(name) ==
    /\ pc = "routed"
    /\ name \in Keys(g._nodes)
    /\ ret' = [op |-> "trace", name |-> name, trace |-> trace(g, name), resolve |-> None]
    /\ g' = trace_state(g, name)
    /\ pc' = "traced"
    /\ UNCHANGED <<zones, stubs, arcs, srcs, nonRouteVars>>

\* lib.py 141-145: after cfg.route(), g.resolve(host) on the same host
Resolve ==
    /\ pc = "traced"
    /\ ret' = [ret EXCEPT !.op = "resolve", !.resolve = resolve(g, ret.name)]
    /\ pc' = "done"
    /\ UNCHANGED <<g, zones, stubs, arcs, srcs, nonRouteVars>>

\* no zone conditions read, no host probed
NoEnv == [offset |-> 0, probe |-> "interfaces", ints |-> {}, gws |-> {}]
NoFound == [secs |-> <<>>, hosts |-> <<>>, groups |-> <<>>, hang |-> FALSE]
ZoneIdle == conds = <<>> /\ env = NoEnv /\ found = NoFound

\* no output file, no generator process
NoFile == [exists |-> FALSE, mtime |-> 0, text |-> <<>>]
LockIdle ==
    /\ holder = 0
    /\ procs = <<>>
    /\ out = NoFile
    /\ clock = 0
    /\ writes = <<>>

\* no Environment
EnvIdle == ctx = [passes |-> <<>>, args |-> <<>>] /\ applied = <<>> /\ got = None
SysIdle == ZoneIdle /\ LockIdle /\ EnvIdle

(***************************************************************************)
(* The generator's use of the Config (luna.py, _generate): the document is *)
(* parsed, attach()/add_host() are called and ZoneSet.inject() is run on a *)
(* routed zone set.                                                        *)
(***************************************************************************)
NoCalls == [n |-> 0, op |-> "none", name |-> <<>>, host |-> <<>>, before |-> EmptyConfig]

ConfIdle ==
    /\ conf = EmptyConfig
    /\ doc = <<>>
    /\ calls = NoCalls

ConfInit ==
    /\ g = EmptyZoneSet
    /\ zones = <<>>
    /\ stubs = <<>>
    /\ arcs = <<>>
    /\ srcs = {}
    /\ pc = "parse"
    /\ ret = NoRet
    /\ ConfIdle
    /\ SysIdle

\* a document line as Config.__init__ reads it (rstrip'ed)
Items(d) ==
    [i \in 1..Len(d) |->
        [kind |-> ItemMenu[d[i]].kind, hosts |-> ItemMenu[d[i]].hosts,
         line |-> Str(ItemMenu[d[i]].o, ItemMenu[d[i]].values, <<>>)]]

\* luna.py 213: c = Config(fp)
Parse(d) ==
    /\ pc = "parse"
    /\ conf' = Config(Items(d))
    /\ doc' = d
    /\ pc' = "ready"
    /\ UNCHANGED <<g, zones, stubs, arcs, srcs, ret, calls, sysVars>>

\* Config.attach(name, host)
Attach(name, host) ==
    /\ pc = "ready"
    /\ calls.n < MaxCalls
    /\ conf' = attach(conf, name, host)
    /\ calls' = [n |-> calls.n + 1, op |-> "attach", name |-> name, host |-> host,
                 before |-> conf]
    /\ UNCHANGED <<routeVars, doc, sysVars>>

\* Config.add_host((name,), (line,), comment)
AddHost(name, line, comment) ==
    /\ pc = "ready"
    /\ calls.n < MaxCalls
    /\ conf' = add_host(conf, <<name>>, <<line>>, comment)
    /\ calls' = [n |-> calls.n + 1, op |-> "add_host", name |-> name, host |-> <<>>,
                 before |-> conf]
    /\ UNCHANGED <<routeVars, doc, sysVars>>

\* zone sets as ZoneConfig.__init__ and ZoneConfig.route leave them
RECURSIVE load_zones(_, _, _)
load_zones(st, secs, i) ==
    IF i > Len(secs) THEN st
    ELSE load_zones([g |-> add(st.g, i, HostMenu[secs[i]]),
                     zones |-> Append(st.zones,
                                      Zone(ZoneRoot(st.g), ZoneHosts(st.g, HostMenu[secs[i]])))],
                    secs, i + 1)
\* [a] -via b-> [b] -via c-> [c], routed from [a]: the path of c is [b, c]
JumpGraph ==
    LET st == load_zones([g |-> EmptyZoneSet, zones |-> <<>>], <<2, 3, 4>>, 1)
        g1 == arc(st.g, st.zones, 1, 0, HostB, 20)
        g2 == arc(g1, st.zones, 2, 0, HostC, 20)
    IN  [g |-> route(set_src(g2, st.zones[1])), zones |-> st.zones,
         stubs |-> <<2, 3, 4>>, srcs |-> {1}]
\* [a:a1:a2], [c] -via a2->, routed from [c]: a is reached through a2
AliasGraph ==
    LET st == load_zones([g |-> EmptyZoneSet, zones |-> <<>>], <<1, 4>>, 1)
        g1 == arc(st.g, st.zones, 2, 0, AliasA2, 20)
    IN  [g |-> route(set_src(g1, st.zones[2])), zones |-> st.zones,
         stubs |-> <<1, 4>>, srcs |-> {2}]
GraphMenu == <<JumpGraph, AliasGraph>>

\* luna.py 248: g.inject(c) on the routed zone set
Inject(k) ==
    /\ pc = "ready"
    /\ calls.n < MaxCalls
    /\ g' = GraphMenu[k].g
    /\ zones' = GraphMenu[k].zones
    /\ stubs' = GraphMenu[k].stubs
    /\ srcs' = GraphMenu[k].srcs
    /\ conf' = inject(g', conf)
    /\ calls' = [n |-> calls.n + 1, op |-> "inject", name |-> <<>>, host |-> <<>>,
                 before |-> conf]
    /\ UNCHANGED <<arcs, pc, ret, doc, sysVars>>

(***************************************************************************)
(* moon/lock.py and luna.py main(): generator processes that share one     *)
(* output path.  The lock file is never unlinked, so every process locks   *)
(* the same file; each process has its own open file description.          *)
(***************************************************************************)
LockInit ==
    /\ RouteInit
    /\ ConfIdle
    /\ ZoneIdle
    /\ EnvIdle
    /\ holder = 0
    /\ procs = [p \in 1..MaxProcs |-> [pc |-> "start", waited |-> FALSE, raised |-> FALSE, buf |-> <<>>]]
    /\ out \in {NoFile, [exists |-> TRUE, mtime |-> 0, text |-> <<0, 0>>]}
    /\ clock = 0
    /\ writes = <<>>

\* a flock that takes the lock whoever holds it
flock_any(h, p) == TRUE

\* fcntl.flock(fd, LOCK_EX): granted when no other open file description
\* holds the lock
flock(h, p) == h = 0 \/ h = p

\* lock.py 101-112: lock.acquire(blocking=False); BlockingIOError sets waited
TryAcquire(p) ==
    /\ procs[p].pc = "start"
    /\ IF flock(holder, p)
       THEN /\ holder' = p
            /\ procs' = [procs EXCEPT ![p].pc = "body", ![p].waited = FALSE]
       ELSE /\ procs' = [procs EXCEPT ![p].pc = "blocked", ![p].waited = TRUE]
            /\ UNCHANGED holder
    /\ UNCHANGED <<out, clock, writes, routeVars, confVars, zoneVars, envVars>>

\* lock.py 108: lock.acquire() returns once the lock is free
Acquire(p) ==
    /\ procs[p].pc = "blocked"
    /\ flock(holder, p)
    /\ holder' = p
    /\ procs' = [procs EXCEPT ![p].pc = "body"]
    /\ UNCHANGED <<out, clock, writes, routeVars, confVars, zoneVars, envVars>>

\* a body that goes on to the mtime check whether the process waited or not
Body_regen(p) ==
    /\ procs[p].pc = "body"
    /\ procs' = [procs EXCEPT ![p].pc = "mtime"]
    /\ UNCHANGED <<holder, out, clock, writes, routeVars, confVars, zoneVars, envVars>>

\* luna.py 297-299: a process that waited previews the file
Body(p) ==
    /\ procs[p].pc = "body"
    /\ procs' = [procs EXCEPT ![p].pc = IF procs[p].waited THEN "preview" ELSE "mtime"]
    /\ UNCHANGED <<holder, out, clock, writes, routeVars, confVars, zoneVars, envVars>>

\* luna.py 304-311: a file written at most 2 seconds ago is previewed
CheckMtime(p) ==
    /\ procs[p].pc = "mtime"
    /\ procs' = [procs EXCEPT ![p].pc =
                    IF out.exists /\ clock - out.mtime <= 2 THEN "preview" ELSE "generate"]
    /\ UNCHANGED <<holder, out, clock, writes, routeVars, confVars, zoneVars, envVars>>

\* luna.py 266-276: preview reads the file and returns
Preview(p) ==
    /\ procs[p].pc = "preview"
    /\ procs' = [procs EXCEPT ![p].pc = "release", ![p].buf = out.text]
    /\ UNCHANGED <<holder, out, clock, writes, routeVars, confVars, zoneVars, envVars>>

\* a generate() handed the output file itself: the file is opened for
\* writing, and so truncated, before the document is generated
Generate_open(p, ok) ==
    /\ procs[p].pc = "generate"
    /\ procs' = [procs EXCEPT ![p].pc = IF ok THEN "write" ELSE "release",
                              ![p].raised = ~ok,
                              ![p].buf = IF ok THEN <<p, clock>> ELSE <<>>]
    /\ out' = [exists |-> TRUE, mtime |-> clock, text |-> <<>>]
    /\ writes' = Append(writes, [by |-> p, holder |-> holder, at |-> clock])
    /\ UNCHANGED <<holder, clock, routeVars, confVars, zoneVars, envVars>>

\* luna.py 313-315: generate(buf, a) fills the buffer, or raises; the
\* exception leaves main through the with block of wait_lock
Generate(p, ok) ==
    /\ procs[p].pc = "generate"
    /\ procs' = [procs EXCEPT ![p].pc = IF ok THEN "write" ELSE "release",
                              ![p].raised = ~ok,
                              ![p].buf = IF ok THEN <<p, clock>> ELSE <<>>]
    /\ UNCHANGED <<holder, out, clock, writes, routeVars, confVars, zoneVars, envVars>>

\* luna.py 318-319: the file is opened for writing and the buffer written
Write(p) ==
    /\ procs[p].pc = "write"
    /\ out' = [exists |-> TRUE, mtime |-> clock, text |-> procs[p].buf]
    /\ writes' = Append(writes, [by |-> p, holder |-> holder, at |-> clock])
    /\ procs' = [procs EXCEPT ![p].pc = "release"]
    /\ UNCHANGED <<holder, clock, routeVars, confVars, zoneVars, envVars>>

\* lock.py 116-119: lock.release() and os.close(fd)
Release(p) ==
    /\ procs[p].pc = "release"
    /\ holder' = IF holder = p THEN 0 ELSE holder
    /\ procs' = [procs EXCEPT ![p].pc = "done"]
    /\ UNCHANGED <<out, clock, writes, routeVars, confVars, zoneVars, envVars>>

\* a second passes
Tick ==
    /\ clock < MaxClock
    /\ clock' = clock + 1
    /\ UNCHANGED <<holder, procs, out, writes, routeVars, confVars, zoneVars, envVars>>

(***************************************************************************)
(* cfg.py: the conditions of the zones and the source predicate.           *)
(***************************************************************************)
RECURSIVE pow2(_)
pow2(n) == IF n = 0 THEN 1 ELSE 2 * pow2(n - 1)

\* IPv4Network(cidr, strict=False): the host bits are cleared
IPv4Network(cidr) ==
    [addr |-> (cidr[1] \div pow2(WIDTH - cidr[2])) * pow2(WIDTH - cidr[2]), len |-> cidr[2]]
\* ip in net
ip_in(ip, net) == ip \div pow2(WIDTH - net.len) = net.addr \div pow2(WIDTH - net.len)

\* moon/intf.py, Interfaces.check_subnet(net): self.ints[net], the interface
\* whose network is net, or None
Interfaces_check_subnet(ints, net) ==
    IF \E i \in ints : IPv4Network(i) = net
    THEN <<CHOOSE i \in ints : IPv4Network(i) = net>> ELSE <<>>
\* moon/intf.py, Gateways.check_subnet(net): a gateway in net, or None
Gateways_check_subnet(gws, net) ==
    IF \E gw \in gws : ip_in(gw, net)
    THEN <<CHOOSE gw \in gws : ip_in(gw, net)>> ELSE <<>>
\* the probe cfg.py imported as Interfaces
check_subnet(e, net) ==
    IF e.probe = "gateways" THEN Gateways_check_subnet(e.gws, net)
    ELSE Interfaces_check_subnet(e.ints, net)

\* cfg.py in_zone, any(interfaces.check_subnet(s) for s in subnets)
RECURSIVE any_subnet(_, _, _)
any_subnet(e, subnets, i) ==
    IF i > Len(subnets) THEN FALSE
    ELSE IF check_subnet(e, subnets[i]) # <<>> THEN TRUE
    ELSE any_subnet(e, subnets, i + 1)

\* an in_zone that wants every subnet matched
RECURSIVE all_subnets(_, _, _)
all_subnets(e, subnets, i) ==
    IF i > Len(subnets) THEN TRUE
    ELSE IF check_subnet(e, subnets[i]) = <<>> THEN FALSE
    ELSE all_subnets(e, subnets, i + 1)
in_zone_all(e, tz, subnets) ==
    IF tz # <<>> /\ e.offset # tz[1] * 900 THEN FALSE
    ELSE all_subnets(e, subnets, 1)

\* cfg.py in_zone
in_zone(e, tz, subnets) ==
    IF tz # <<>> /\ e.offset # tz[1] * 900 THEN FALSE
    ELSE IF subnets # <<>> THEN any_subnet(e, subnets, 1)
    ELSE TRUE


\* the host the program runs on: its UTC offset, the probe in use, the
\* interfaces or gateways it reports
ZoneInit ==
    /\ RouteInit
    /\ ConfIdle
    /\ LockIdle
    /\ EnvIdle
    /\ conds = <<>>
    /\ found = NoFound
    /\ \E off \in Offsets, ints \in SUBSET Interfaces, gws \in SUBSET Gateways :
          \/ env = [offset |-> off, probe |-> "interfaces", ints |-> ints, gws |-> {}]
          \/ env = [offset |-> off, probe |-> "gateways", ints |-> {}, gws |-> gws]

\* cfg.py 154-156: zones[sect] = g.add(hosts) and the section's conditions
AddZoneCond(tz, cidrs) ==
    /\ pc \in {"read", "add"}
    /\ Len(zones) < Len(stubs)
    /\ LET hosts == HostMenu[stubs[Len(zones) + 1]]
       IN  /\ g' = add(g, Len(zones) + 1, hosts)
           /\ zones' = Append(zones, Zone(ZoneRoot(g), ZoneHosts(g, hosts)))
    /\ conds' = Append(conds, <<tz, [i \in 1..Len(cidrs) |-> IPv4Network(cidrs[i])]>>)
    /\ pc' = "add"
    /\ UNCHANGED <<stubs, arcs, srcs, ret, confVars, env, found, lockVars, envVars>>

\* cfg.py 211-217, ZoneConfig.route: set_src on the zones in_zone accepts,
\* then g.route()
RouteZones ==
    /\ Len(conds) = Len(zones)
    /\ RouteFrom({z \in 1..Len(zones) : in_zone(env, conds[z][1], conds[z][2])})

(***************************************************************************)
(* cfg.py resolve_direct and its callers in lib.py: resolve() of the       *)
(* wrapper mode and generate() of the generator mode.  lib.py spells the   *)
(* method resolve_direct_mode and calls route() without the host; the      *)
(* calls are taken to reach resolve_direct and route(host).                *)
(***************************************************************************)
\* str.removeprefix
removeprefix(s, prefix) ==
    IF Len(s) >= Len(prefix) /\ SubSeq(s, 1, Len(prefix)) = prefix
    THEN SubSeq(s, Len(prefix) + 1, Len(s)) ELSE s

\* ZoneSet.__contains__
ZoneSet_contains(G, name) == name \in Keys(G._nodes)

\* a resolve_direct that hands a d.-prefixed name back as it is
resolve_direct_keep(G, host) ==
    IF ~ZoneSet_contains(G, host) THEN Some(host) ELSE None

\* ZoneConfig.resolve_direct
resolve_direct(G, host) ==
    IF ~ZoneSet_contains(G, host)
    THEN LET real == removeprefix(host, <<"d", ".">>)
         IN  IF real # host /\ ZoneSet_contains(G, real) THEN Some(real) ELSE Some(host)
    ELSE None

\* zone files as ZoneConfig.__init__ loads them:
\* [a] -via b-> [b] -via c-> [c]; [a:a1:a2], [c] -via a2->; [a] -via d.a-> [d.a];
\* [a:a1:a2], [b] -via a2->, [c] -via b->
DirectGraphs ==
    LET j == load_zones([g |-> EmptyZoneSet, zones |-> <<>>], <<2, 3, 4>>, 1)
        h == load_zones([g |-> EmptyZoneSet, zones |-> <<>>], <<1, 3, 4>>, 1)
        a == load_zones([g |-> EmptyZoneSet, zones |-> <<>>], <<1, 4>>, 1)
        d == load_zones([g |-> EmptyZoneSet, zones |-> <<>>], <<2, 6>>, 1)
    IN  << [g |-> arc(arc(j.g, j.zones, 1, 0, HostB, 20), j.zones, 2, 0, HostC, 20),
            zones |-> j.zones, stubs |-> <<2, 3, 4>>],
           [g |-> arc(a.g, a.zones, 2, 0, AliasA2, 20), zones |-> a.zones, stubs |-> <<1, 4>>],
           [g |-> arc(d.g, d.zones, 1, 0, DirectA, 20), zones |-> d.zones, stubs |-> <<2, 6>>],
           [g |-> arc(arc(h.g, h.zones, 2, 0, AliasA2, 20), h.zones, 3, 0, HostB, 20),
            zones |-> h.zones, stubs |-> <<1, 3, 4>>] >>

\* lib.py 125-148, resolve(args): the zone file is loaded; a direct host is
\* returned with no jumps, any other host is routed to
ResolveRun(k, host, S) ==
    /\ pc = "parse"
    /\ S \subseteq 1..Len(DirectGraphs[k].zones)
    /\ zones' = DirectGraphs[k].zones
    /\ stubs' = DirectGraphs[k].stubs
    /\ LET G == DirectGraphs[k].g
           real == resolve_direct(G, host)
       IN  IF real.some /\ real.val # <<>>
           THEN /\ g' = G
                /\ srcs' = {}
                /\ ret' = [op |-> "direct", name |-> host, trace |-> None,
                           resolve |-> Some(<<real.val, <<>>>>)]
           ELSE /\ g' = route(set_srcs(G, zones', S, 1))
                /\ srcs' = S
                /\ ret' = [op |-> "resolve", name |-> host, trace |-> None,
                           resolve |-> IF resolve(g', host).some THEN resolve(g', host)
                                       ELSE Some(<<host, <<>>>>)]
    /\ pc' = "done"
    /\ UNCHANGED <<arcs, nonRouteVars>>

\* lib.py 75-122, generate(file, args) with a host, after c = Config(fp):
\* the zone file is loaded; a direct host is attached to its real host, for
\* any other host the zones are routed, the host traced and the jumps
\* injected
GenerateRun(k, host, S) ==
    /\ pc = "ready"
    /\ S \subseteq 1..Len(DirectGraphs[k].zones)
    /\ zones' = DirectGraphs[k].zones
    /\ stubs' = DirectGraphs[k].stubs
    /\ LET G == DirectGraphs[k].g
           real == resolve_direct(G, host)
       IN  IF real.some /\ real.val # <<>>
           THEN /\ g' = G
                /\ srcs' = {}
                /\ ret' = [op |-> "generate", name |-> host, trace |-> None, resolve |-> None]
                /\ conf' = attach(conf, host, real.val)
                /\ calls' = [n |-> calls.n + 1, op |-> "attach", name |-> host,
                             host |-> real.val, before |-> conf]
           ELSE /\ \E R \in {route(set_srcs(G, zones', S, 1))} :
                      /\ g' = trace_state(R, host)
                      /\ ret' = [op |-> "generate", name |-> host, trace |-> trace(R, host),
                                 resolve |-> None]
                /\ srcs' = S
                /\ conf' = inject(g', conf)
                /\ calls' = [n |-> calls.n + 1, op |-> "inject", name |-> <<>>,
                             host |-> <<>>, before |-> conf]
    /\ pc' = "done"
    /\ UNCHANGED <<arcs, doc, sysVars>>

(***************************************************************************)
(* The document printed and read back: Config.print(file) as _generate     *)
(* calls it, and Config(fp) on what was printed.                           *)
(***************************************************************************)
\* luna.py 256: c.print(file); the text becomes the output file
PrintDoc ==
    /\ pc = "ready"
    /\ Len(writes) < MaxPrints
    /\ out' = [exists |-> TRUE, mtime |-> clock, text |-> Config_print(conf, <<>>)]
    /\ writes' = Append(writes, [by |-> 0, holder |-> holder, at |-> clock, text |-> out'.text])
    /\ pc' = "printed"
    /\ UNCHANGED <<g, zones, stubs, arcs, srcs, ret, confVars, zoneVars, envVars, holder, procs, clock>>

\* luna.py 201-202: c = Config(fp) on the printed file
ReadBack ==
    /\ pc = "printed"
    /\ conf' = Config(read_text(out.text))
    /\ pc' = "ready"
    /\ UNCHANGED <<g, zones, stubs, arcs, srcs, ret, doc, calls, sysVars>>

(***************************************************************************)
(* cfg.py, ZoneConfig.__init__ with a Config: the smart host discovery.    *)
(***************************************************************************)
\* the characters of the names, in code point order
CharOrder ==
    <<"!", "*", ".", "0", "1", "2", "3", "4", "5", "6", "7", "8", "9", "?",
      "a", "b", "c", "d", "p", "u", "v", "w", "x", "z">>
char_rank(c) == CHOOSE i \in 1..Len(CharOrder) : CharOrder[i] = c
\* str.__lt__
RECURSIVE str_lt(_, _)
str_lt(x, y) ==
    IF y = <<>> THEN FALSE
    ELSE IF x = <<>> THEN TRUE
    ELSE IF Head(x) = Head(y) THEN str_lt(Tail(x), Tail(y))
    ELSE char_rank(Head(x)) < char_rank(Head(y))
\* sorted(names)
RECURSIVE sorted_names(_)
sorted_names(S) ==
    IF S = {} THEN <<>>
    ELSE LET x == CHOOSE x \in S : \A y \in S \ {x} : str_lt(x, y)
         IN  <<x>> \o sorted_names(S \ {x})
\* str.startswith
startswith(s, prefix) == Len(s) >= Len(prefix) /\ SubSeq(s, 1, Len(prefix)) = prefix

\* IPv4Address(hostname): the address, or AddressValueError (None).  An
\* address is written as one decimal number below 2^WIDTH.
RECURSIVE decimal(_, _)
decimal(s, acc) ==
    IF s = <<>> THEN Some(acc)
    ELSE IF Head(s) \in {"0", "1", "2", "3", "4", "5", "6", "7", "8", "9"}
    THEN decimal(Tail(s), 10 * acc + (char_rank(Head(s)) - char_rank("0")))
    ELSE None
IPv4Address(hostname) ==
    IF hostname = <<>> THEN None
    ELSE LET n == decimal(hostname, 0)
         IN  IF n.some /\ n.val < pow2(WIDTH) THEN n ELSE None

\* Config.hosts
Config_hosts(cf) == Keys(cf._host_map)
\* Config.hostnames, for one host: the first hostname directive with a value
\* in the first of the host's blocks that has one
RECURSIVE hostname_line(_, _)
hostname_line(lines, i) ==
    IF i > Len(lines) THEN None
    ELSE IF opt(dir(lines[i])) = "hostname" /\ lines[i].values # <<>>
    THEN Some(lines[i].values[1])
    ELSE hostname_line(lines, i + 1)
RECURSIVE hostname_of(_, _, _)
hostname_of(cf, blks, k) ==
    IF k > Len(blks) THEN None
    ELSE LET h == hostname_line(trimmed(cf, blks[k]), 1)
         IN  IF h.some THEN h ELSE hostname_of(cf, blks, k + 1)
\* sorted(conf.hostnames()): the (host, hostname) pairs, one for a host
Config_hostnames(cf) ==
    LET named == {h \in Config_hosts(cf) : hostname_of(cf, Lookup(cf._host_map, h), 1).some}
        order == sorted_names(named)
    IN  [i \in 1..Len(order) |->
            <<order[i], hostname_of(cf, Lookup(cf._host_map, order[i]), 1).val>>]

\* next(all_hosts, None): the generator filters by `h not in vis` as it is
\* advanced; p names were taken from the sorted list so far
RECURSIVE next_host(_, _, _)
next_host(all, p, vis) ==
    IF p >= Len(all) THEN [p |-> Len(all), h |-> None]
    ELSE IF all[p + 1] \notin vis THEN [p |-> p + 1, h |-> Some(all[p + 1])]
    ELSE next_host(all, p + 1, vis)

\* cfg.py 139-140: while curr_host != host; an exhausted generator gives
\* None for ever, and the loop never ends
RECURSIVE seek(_, _, _, _, _)
seek(all, p, vis, curr, host) ==
    IF curr = Some(host) THEN [p |-> p, hang |-> FALSE]
    ELSE LET n == next_host(all, p, vis)
         IN  IF ~n.h.some THEN [p |-> n.p, hang |-> TRUE]
             ELSE seek(all, n.p, vis, n.h, host)

\* a loop that takes the aliases and leaves vis as it is
RECURSIVE take_unmarked(_, _, _, _, _)
take_unmarked(all, p, vis, host, aliases) ==
    LET n == next_host(all, p, vis)
    IN  IF n.h.some /\ n.h.val # <<>> /\ startswith(n.h.val, host)
        THEN take_unmarked(all, n.p, vis, host, Append(aliases, n.h.val))
        ELSE [p |-> n.p, curr |-> n.h, vis |-> vis, aliases |-> aliases]

\* cfg.py 142-146: the names that follow and start with host are aliases,
\* and are added to vis; the name that ends the run stays in curr_host
RECURSIVE take(_, _, _, _, _)
take(all, p, vis, host, aliases) ==
    LET n == next_host(all, p, vis)
    IN  IF n.h.some /\ n.h.val # <<>> /\ startswith(n.h.val, host)
        THEN take(all, n.p, vis \cup {n.h.val}, host, Append(aliases, n.h.val))
        ELSE [p |-> n.p, curr |-> n.h, vis |-> vis, aliases |-> aliases]

\* a search that gives the last smart zone with a subnet that holds ip
RECURSIVE first_zone_last(_, _, _)
first_zone_last(ip, secs, k) ==
    IF k > Len(secs) THEN 0
    ELSE LET later == first_zone_last(ip, secs, k + 1)
         IN  IF later # 0 THEN later
             ELSE IF /\ ~SmartSections[secs[k]].strict
                     /\ \E i \in 1..Len(SmartSections[secs[k]].subnets) :
                           ip_in(ip, IPv4Network(SmartSections[secs[k]].subnets[i]))
             THEN k ELSE 0

\* cfg.py 125-127 and 149-152: the first smart stub with a subnet that holds
\* ip, or 0
RECURSIVE first_zone(_, _, _)
first_zone(ip, secs, k) ==
    IF k > Len(secs) THEN 0
    ELSE IF /\ ~SmartSections[secs[k]].strict
            /\ \E i \in 1..Len(SmartSections[secs[k]].subnets) :
                  ip_in(ip, IPv4Network(SmartSections[secs[k]].subnets[i]))
    THEN k
    ELSE first_zone(ip, secs, k + 1)

\* cfg.py 116-152: the loop over sorted(conf.hostnames())
RECURSIVE discover(_, _, _, _, _)
discover(all, pairs, i, secs, st) ==
    IF i > Len(pairs) \/ st.hang THEN st
    ELSE LET host == pairs[i][1]
             ip == IPv4Address(pairs[i][2])
             z == IF ip.some THEN first_zone(ip.val, secs, 1) ELSE 0
         IN  IF host \in st.vis \/ ~ip.some \/ z = 0
             THEN discover(all, pairs, i + 1, secs, st)
             ELSE LET s == seek(all, st.p, st.vis, st.curr, host)
                      t == take(all, s.p, st.vis, host, <<host>>)
                  IN  IF s.hang THEN [st EXCEPT !.hang = TRUE]
                      ELSE discover(all, pairs, i + 1, secs,
                              [vis |-> t.vis, p |-> t.p, curr |-> t.curr, hang |-> FALSE,
                               hosts |-> [st.hosts EXCEPT ![z] = Append(@, t.aliases)],
                               groups |-> Append(st.groups,
                                             [zone |-> z, names |-> t.aliases,
                                              vis |-> st.vis, ip |-> ip.val])])

\* cfg.py 92-111: the names the sections declare
RECURSIVE declared(_, _)
declared(secs, k) ==
    IF k > Len(secs) THEN <<>>
    ELSE flat(SmartSections[secs[k]].hosts, 1) \o declared(secs, k + 1)

\* cfg.py 154-155: zones[sect] = g.add(hosts), for every stub of the file
RECURSIVE add_zones(_, _, _)
add_zones(st, hosts, i) ==
    IF i > Len(hosts) THEN st
    ELSE add_zones([g |-> add(st.g, i, hosts[i]),
                    zones |-> Append(st.zones, Zone(ZoneRoot(st.g), ZoneHosts(st.g, hosts[i])))],
                   hosts, i + 1)

\* the canonical names ZoneSet.add registers, in order
RECURSIVE canonicals(_, _)
canonicals(groups, i) ==
    IF i > Len(groups) THEN <<>> ELSE <<groups[i][1]>> \o canonicals(groups, i + 1)

\* ZoneConfig(file, conf) on a zone file of the sections secs: the sections
\* are read, the hosts discovered and the zones added.  A name declared twice
\* raises ValueError, a canonical name registered twice AssertionError.
LoadSmart(secs) ==
    /\ pc = "ready"
    /\ LET names == declared(secs, 1)
           dup == first_dup(names, {}, 1)
           all == sorted_names(Config_hosts(conf))
           st == discover(all, Config_hostnames(conf), 1, secs,
                    [vis |-> {names[i] : i \in 1..Len(names)}, p |-> 0, curr |-> None,
                     hang |-> FALSE,
                     hosts |-> [k \in 1..Len(secs) |-> SmartSections[secs[k]].hosts],
                     groups |-> <<>>])
           regs == canonicals(flat(st.hosts, 1), 1)
           loaded == add_zones([g |-> g, zones |-> <<>>], st.hosts, 1)
       IN  IF dup # <<>>
           THEN /\ pc' = "error"
                /\ ret' = [op |-> "ValueError", name |-> dup[1], trace |-> None, resolve |-> None]
                /\ UNCHANGED <<g, zones, found>>
           ELSE /\ found' = [secs |-> secs, hosts |-> st.hosts, groups |-> st.groups,
                             hang |-> st.hang]
                /\ IF st.hang
                   THEN pc' = "hang" /\ UNCHANGED <<g, zones, ret>>
                   ELSE IF first_dup(regs, {}, 1) # <<>>
                   THEN /\ pc' = "error"
                        /\ ret' = [op |-> "AssertionError", name |-> first_dup(regs, {}, 1)[1],
                                   trace |-> None, resolve |-> None]
                        /\ UNCHANGED <<g, zones>>
                   ELSE /\ pc' = "added"
                        /\ g' = loaded.g
                        /\ zones' = loaded.zones
                        /\ UNCHANGED ret
    /\ UNCHANGED <<stubs, arcs, srcs, confVars, conds, env, lockVars, envVars>>

(***************************************************************************)
(* moon/env.py: the Environment and its passes.                            *)
(***************************************************************************)
\* a pass called on (k, v): the value it returns, or the result of the Abort
\* it raises.  "inc" and "dbl" are neither idempotent nor commute; "stop"
\* raises Abort on an odd value of x and on an even value of y.
call_pass(f, k, v) ==
    CASE f = "inc" -> [v |-> (v + 1) % ValMod, abort |-> FALSE]
      [] f = "dbl" -> [v |-> (2 * v) % ValMod, abort |-> FALSE]
      [] f = "stop" -> IF v % 2 = (IF k = "x" THEN 1 ELSE 0)
                       THEN [v |-> (v + 3) % ValMod, abort |-> TRUE]
                       ELSE [v |-> v, abort |-> FALSE]

\* _run_passes(k, v, passes[i:]) for i counted from 0: the value, whether to
\* continue, and the positions of the passes that were called
RECURSIVE _run_passes(_, _, _, _, _)
_run_passes(k, v, passes, i, called) ==
    IF i >= Len(passes) THEN [v |-> v, cont |-> TRUE, called |-> called]
    ELSE LET r == call_pass(passes[i + 1], k, v)
         IN  IF r.abort
             THEN [v |-> r.v, cont |-> FALSE, called |-> Append(called, i + 1)]
             ELSE _run_passes(k, r.v, passes, i + 1, Append(called, i + 1))

\* a lookup that records len(passes) whether or not a pass raised Abort
_get_resume(e, k, t) ==
    IF t.i.some
    THEN LET r == _run_passes(k, t.v, e.passes, t.i.val, <<>>)
         IN  [ctx |-> [e EXCEPT !.args[k] = [v |-> r.v, i |-> Some(Len(e.passes))]],
              v |-> r.v, called |-> r.called]
    ELSE [ctx |-> e, v |-> t.v, called |-> <<>>]

\* Environment._get: the Environment after the lookup, the value returned
\* and the passes called
_get(e, k, t) ==
    IF t.i.some
    THEN LET r == _run_passes(k, t.v, e.passes, t.i.val, <<>>)
         IN  [ctx |-> [e EXCEPT !.args[k] =
                          [v |-> r.v, i |-> IF r.cont THEN Some(Len(e.passes)) ELSE None]],
              v |-> r.v, called |-> r.called]
    ELSE [ctx |-> e, v |-> t.v, called |-> <<>>]

\* Environment(args): every key starts as (v, 0), no pass is registered
EnvInit ==
    /\ RouteInit
    /\ ConfIdle
    /\ ZoneIdle
    /\ LockIdle
    /\ \E raw \in [EnvKeys -> RawValues] :
          /\ ctx = [passes |-> <<>>, args |-> [k \in EnvKeys |-> [v |-> raw[k], i |-> Some(0)]]]
          /\ applied = [k \in EnvKeys |-> [raw |-> raw[k], called |-> <<>>, seen |-> 0]]
    /\ got = None

\* Environment.add_pass
AddPass(f) ==
    /\ Len(ctx.passes) < MaxPasses
    /\ ctx' = [ctx EXCEPT !.passes = Append(@, f)]
    /\ got' = None
    /\ UNCHANGED <<applied, routeVars, confVars, zoneVars, lockVars>>

\* Environment.__getitem__
GetItem(k) ==
    /\ k \in DOMAIN ctx.args
    /\ LET r == _get(ctx, k, ctx.args[k])
       IN  /\ ctx' = r.ctx
           /\ applied' = [applied EXCEPT ![k].called = @ \o r.called,
                                         ![k].seen = Len(ctx.passes)]
           /\ got' = Some([k |-> k, v |-> r.v, before |-> ctx.args[k],
                           seen |-> applied[k].seen])
    /\ UNCHANGED <<routeVars, confVars, zoneVars, lockVars>>

\* Environment.items, run to its end: every key is looked up, in dict order
RECURSIVE items(_, _, _)
items(e, j, yielded) ==
    IF j > Len(EnvOrder) THEN [ctx |-> e, yielded |-> yielded]
    ELSE LET k == EnvOrder[j]
             r == _get(e, k, e.args[k])
         IN  items(r.ctx, j + 1, Append(yielded, [k |-> k, v |-> r.v, called |-> r.called]))

EnvItems ==
    /\ DOMAIN ctx.args = EnvKeys
    /\ LET r == items(ctx, 1, <<>>)
           at(k) == CHOOSE j \in 1..Len(EnvOrder) : EnvOrder[j] = k
           last == EnvOrder[Len(EnvOrder)]
       IN  /\ ctx' = r.ctx
           /\ applied' = [k \in EnvKeys |->
                             [applied[k] EXCEPT !.called = @ \o r.yielded[at(k)].called,
                                                !.seen = Len(ctx.passes)]]
           /\ got' = Some([k |-> last, v |-> r.yielded[Len(EnvOrder)].v,
                           before |-> ctx.args[last], seen |-> applied[last].seen])
    /\ UNCHANGED <<routeVars, confVars, zoneVars, lockVars>>

\* Environment.__setitem__: the key is (v, 0) again
SetItem(k, v) ==
    /\ k \in DOMAIN ctx.args
    /\ ctx' = [ctx EXCEPT !.args[k] = [v |-> v, i |-> Some(0)]]
    /\ applied' = [applied EXCEPT ![k] = [raw |-> v, called |-> <<>>, seen |-> 0]]
    /\ got' = None
    /\ UNCHANGED <<routeVars, confVars, zoneVars, lockVars>>

vars == <<routeVars, confVars, sysVars>>

\* Zone files over RouteMenu, every set of source zones, routing.
RouteNext ==
    \/ \E i \in RouteMenu : ReadSection(i, MaxZones)
    \/ AddZone
    \/ \E frm \in 1..Len(zones), to \in 0..Len(zones), via \in Vias, cost \in Costs :
          ArcCall(frm, to, via, cost, MaxArcs)
    \/ \E S \in SUBSET (1..Len(zones)) : RouteFrom(S)

\* nothing but the zone graph runs
Init == RouteInit /\ ConfIdle /\ SysIdle

Spec == Init /\ [][RouteNext]_vars

\* Documents over ItemMenu, then calls on the Config index.
ConfNext ==
    \/ \E n \in 0..MaxDoc : \E d \in [1..n -> ConfMenu] : Parse(d)
    \/ \E name, host \in ConfHosts : Attach(name, host)
    \/ AddHost(HostC, Str("ProxyJump", <<HostB>>, <<>>), <<"[", "b", "]">>)
    \/ AddHost(HostA, Str("User", <<<<"w">>>>, <<>>), <<>>)
    \/ \E k \in 1..Len(GraphMenu) : Inject(k)

SpecConf == ConfInit /\ [][ConfNext]_vars

\* Generator processes on one output path.
LockNext ==
    \/ \E p \in 1..MaxProcs :
          \/ TryAcquire(p)
          \/ Acquire(p)
          \/ Body(p)
          \/ CheckMtime(p)
          \/ Preview(p)
          \/ \E ok \in BOOLEAN : Generate(p, ok)
          \/ Write(p)
          \/ Release(p)
    \/ Tick

SpecLock == LockInit /\ [][LockNext]_vars

\* The steps of one generator process.  Each process is scheduled again and
\* again until it exits, and generate() returns or raises.
ProcStep(p) ==
    \/ TryAcquire(p)
    \/ Acquire(p)
    \/ Body(p)
    \/ CheckMtime(p)
    \/ Preview(p)
    \/ \E ok \in BOOLEAN : Generate(p, ok)
    \/ Write(p)
    \/ Release(p)

SpecLockLive == SpecLock /\ \A p \in 1..MaxProcs : WF_vars(ProcStep(p))

\* An Environment of two keys: passes are added, keys looked up and assigned.
EnvNext ==
    \/ \E f \in PassMenu : AddPass(f)
    \/ \E k \in EnvKeys : GetItem(k)
    \/ EnvItems
    \/ \E k \in EnvKeys, v \in RawValues : SetItem(k, v)

SpecEnv == EnvInit /\ [][EnvNext]_vars

\* Zone files with conditions on a host, then routing.
ZoneNext ==
    \/ \E i \in CondMenu : ReadSection(i, MaxCondZones)
    \/ \E tz \in Timezones, cidrs \in CidrLists : AddZoneCond(tz, cidrs)
    \/ RouteZones

SpecZone == ZoneInit /\ [][ZoneNext]_vars

\* Zone files of single-host zones, the i-th arc leaving the i-th zone via a
\* host name, then routing and the queries on one host.
ChainNext ==
    \/ \E i \in ChainMenu : ReadSection(i, MaxChain)
    \/ AddZone
    \/ \E via \in ChainVias, cost \in ChainCosts :
          Len(arcs) < Len(zones) /\ ArcCall(Len(arcs) + 1, 0, via, cost, MaxChainArcs)
    \/ \E S \in SUBSET (1..Len(zones)) : RouteFrom(S)
    \/ \E name \in ChainVias : Trace(name)
    \/ Resolve

SpecChain == Init /\ [][ChainNext]_vars

\* Zone files over LoadMenu: the sections are read, the zones and the arcs
\* added, the zones routed.
LoadNext ==
    \/ \E i \in LoadMenu : ReadSection(i, MaxZones)
    \/ AddZone
    \/ \E frm \in 1..Len(zones), to \in 0..Len(zones), via \in {<<>>, HostA, HostB}, cost \in Costs :
          ArcCall(frm, to, via, cost, MaxArcs)
    \/ \E S \in SUBSET (1..Len(zones)) : RouteFrom(S)

SpecLoad == Init /\ [][LoadNext]_vars

\* One run on a host: the wrapper's resolve(), or the generator's generate()
\* on a parsed document.
DirectNext ==
    \/ \E n \in 0..MaxDirectDoc : \E d \in [1..n -> ConfMenu] : Parse(d)
    \/ \E k \in 1..Len(DirectGraphs), host \in DirectHosts :
          \E S \in SUBSET (1..MaxZones) : ResolveRun(k, host, S)
    \/ \E k \in 1..Len(DirectGraphs), host \in DirectHosts :
          \E S \in SUBSET (1..MaxZones) : GenerateRun(k, host, S)

SpecDirect == ConfInit /\ [][DirectNext]_vars

\* A document over ItemMenu is parsed, printed, and the print read back.
PrintNext ==
    \/ \E n \in 0..MaxDoc : \E d \in [1..n -> ConfMenu] : Parse(d)
    \/ PrintDoc
    \/ ReadBack

SpecPrint == ConfInit /\ [][PrintNext]_vars

\* A document over SmartMenu is parsed and a zone file of up to MaxSmartZones
\* sections is loaded with it.
SmartNext ==
    \/ \E n \in 0..MaxSmartDoc : \E d \in [1..n -> SmartMenu] : Parse(d)
    \/ \E n \in 1..MaxSmartZones : \E secs \in [1..n -> 1..Len(SmartSections)] :
          /\ \A i, j \in 1..n : i # j => secs[i] # secs[j]
          /\ LoadSmart(secs)

SpecSmart == ConfInit /\ [][SmartNext]_vars

\* A small document with patterns in its headers is parsed, then attach()
\* and add_host() are called.
MatchNext ==
    \/ \E n \in 0..MaxDirectDoc : \E d \in [1..n -> MatchMenu] : Parse(d)
    \/ \E pair \in AttachPairs : Attach(pair[1], pair[2])
    \/ AddHost(HostC, Str("ProxyJump", <<HostB>>, <<>>), <<"[", "b", "]">>)
    \/ AddHost(HostA, Str("User", <<<<"w">>>>, <<>>), <<>>)

SpecMatch == ConfInit /\ [][MatchNext]_vars

\* A small document is parsed, then attach() and add_host() are called.
AttachNext ==
    \/ \E n \in 0..MaxDirectDoc : \E d \in [1..n -> ConfMenu] : Parse(d)
    \/ \E pair \in AttachPairs : Attach(pair[1], pair[2])
    \/ AddHost(HostC, Str("ProxyJump", <<HostB>>, <<>>), <<"[", "b", "]">>)
    \/ AddHost(HostA, Str("User", <<<<"w">>>>, <<>>), <<>>)

SpecAttach == ConfInit /\ [][AttachNext]_vars

\* A document over InjectMenu is parsed and generate() is run on a managed
\* host: the zones are routed and the jumps injected.
InjectNext ==
    \/ \E n \in 0..MaxDoc : \E d \in [1..n -> InjectMenu] : Parse(d)
    \/ \E k \in 1..Len(DirectGraphs), host \in {HostA, HostC} :
          \E S \in SUBSET (1..MaxZones) : GenerateRun(k, host, S)

SpecInject == ConfInit /\ [][InjectNext]_vars

(***************************************************************************)
(* What the claims about the zone graph speak of.                          *)
(***************************************************************************)
Routed == pc \in {"routed", "traced", "done"}
NodeIds == 1..Len(g.nodes)
SourceRoots == {zones[z].root : z \in srcs}
NodeOf(name) == Lookup(g._nodes, name)

\* the nodes some sequence of arcs reaches from the nodes of `set`
RECURSIVE Reach(_)
Reach(set) ==
    LET next == set \cup UNION {{g.nodes[u].adj[i].to : i \in 1..Len(g.nodes[u].adj)} : u \in set}
    IN  IF next = set THEN set ELSE Reach(next)

Min(S) == CHOOSE x \in S : \A y \in S : x <= y

\* the least summed cost of an arc sequence from a source root to each node
\* (INF where there is none), by n rounds of relaxing every arc
RECURSIVE LeastCost(_, _)
LeastCost(D, n) ==
    IF n = 0 THEN D
    ELSE LeastCost(
            SubSeq([v \in NodeIds |->
                       Min({D[v]} \cup
                           UNION {{D[u] + g.nodes[u].adj[i].cost :
                                     i \in {k \in 1..Len(g.nodes[u].adj) : g.nodes[u].adj[k].to = v}} :
                                  u \in {w \in NodeIds : D[w] < INF}})],
                   1, Len(g.nodes)),
            n - 1)

ShortestDist == LeastCost([v \in NodeIds |-> IF v \in SourceRoots THEN 0 ELSE INF], Len(g.nodes))

\* the prev chain of u: every step is an arc of the graph into the node it is
\* recorded on, and the chain ends at a source root
RECURSIVE ChainIsPath(_)
ChainIsPath(u) ==
    LET prev == g.nodes[u].prev
    IN  IF prev = <<>> THEN u \in SourceRoots
        ELSE /\ prev[2].to = u
             /\ \E i \in 1..Len(g.nodes[prev[1]].adj) : g.nodes[prev[1]].adj[i] = prev[2]
             /\ ChainIsPath(prev[1])

RECURSIVE ChainCost(_)
ChainCost(u) ==
    IF g.nodes[u].prev = <<>> THEN 0
    ELSE g.nodes[u].prev[2].cost + ChainCost(g.nodes[u].prev[1])

RECURSIVE ChainLen(_)
ChainLen(u) == IF g.nodes[u].prev = <<>> THEN 0 ELSE 1 + ChainLen(g.nodes[u].prev[1])

\* the canonical host a name refers to: itself, or the host it is an alias of
Canon(name) ==
    IF name \in Keys(g._canonical) THEN g.nodes[Lookup(g._canonical, name)].name ELSE name

\* C1: after set_src on a set of zones and route(), find() of a node is
\* non-null iff some sequence of arcs leads from a source root to the node.
C1_Reachability ==
    Routed => \A u \in NodeIds : find(g, u).some <=> u \in Reach(SourceRoots)

\* a routed graph with a node three arcs away from its source and a node
\* that no source reaches
C1_Witness ==
    /\ pc = "routed"
    /\ \E u \in NodeIds : find(g, u).some /\ ChainLen(u) >= 3
    /\ \E u \in NodeIds : ~find(g, u).some /\ u \notin Reach(SourceRoots)

\* C2: after route() on non-negative costs, dist of every reached node is
\* the least summed cost of an arc sequence from a source root to it, and
\* the arcs of its prev chain form such a sequence and sum to dist.
C2_ShortestPath ==
    (Routed /\ \A k \in 1..Len(arcs) : arcs[k].cost >= 0) =>
        \E least \in {ShortestDist} :
            \A u \in NodeIds :
                g.nodes[u].dist < INF =>
                    /\ g.nodes[u].dist = least[u]
                    /\ ChainIsPath(u)
                    /\ ChainCost(u) = g.nodes[u].dist

\* a routed graph from two sources where a reached node also has an arc into
\* it that would have made a costlier path
C2_Witness ==
    /\ pc = "routed"
    /\ Cardinality(srcs) = 2
    /\ \E u \in NodeIds, v \in NodeIds :
          /\ ChainLen(v) >= 2
          /\ g.nodes[u].dist < INF
          /\ \E i \in 1..Len(g.nodes[u].adj) :
                /\ g.nodes[u].adj[i].to = v
                /\ g.nodes[u].dist + g.nodes[u].adj[i].cost > g.nodes[v].dist

\* C3 as stated: in every path find() returns, no two consecutive names refer
\* to the same canonical host and no zone-root (empty) name appears.
C3_AliasTransparency ==
    Routed =>
        \A u \in NodeIds :
            find(g, u).some =>
                LET P == find(g, u).val
                IN  /\ \A i \in 1..Len(P) : P[i] # <<>>
                    /\ \A i \in 1..(Len(P) - 1) : Canon(P[i]) # Canon(P[i + 1])

\* C3 as amended: no zone-root name appears, and two consecutive names refer
\* to the same canonical host only where the second one is an alias and ends
\* the path (the path of that alias node).
C3_AliasTransparencyAmended ==
    Routed =>
        \A u \in NodeIds :
            find(g, u).some =>
                LET P == find(g, u).val
                IN  /\ \A i \in 1..Len(P) : P[i] # <<>>
                    /\ \A i \in 1..(Len(P) - 1) :
                          Canon(P[i]) = Canon(P[i + 1]) =>
                              /\ i + 1 = Len(P)
                              /\ P[i + 1] \in Keys(g._canonical)
                              /\ g.nodes[u].name = P[i + 1]

\* a routed graph where a canonical host is entered through its alias and
\* the path goes on to a host of another zone
C3_Witness ==
    /\ pc = "routed"
    /\ \E u \in NodeIds :
          /\ find(g, u).some
          /\ Len(find(g, u).val) = 2
          /\ find(g, u).val[1] \in Keys(g._canonical)
          /\ Canon(find(g, u).val[1]) # Canon(find(g, u).val[2])

\* The zone file of C4: A = [a:a1:a2], B = [b], C = [c]; an arc of A via a2
\* (to B, cost 20) and an arc of B via c (cost 20); A the only source.
C4_Zones == stubs = <<1, 3, 4>> /\ AllAdded
C4_Arcs ==
    arcs = << [frm |-> 1, via |-> AliasA2, cost |-> 20],
              [frm |-> 2, via |-> HostC, cost |-> 20] >>
C4_Scenario == C4_Zones /\ C4_Arcs /\ srcs = {1} /\ pc = "routed"

\* C4 as stated: the arc into B uses the alias node a2 and is marked alias,
\* and after route() the path of c is [b, c].
C4_AliasElision ==
    C4_Scenario =>
        /\ \E i \in 1..Len(g.nodes[NodeOf(AliasA2)].adj) :
              LET e == g.nodes[NodeOf(AliasA2)].adj[i]
              IN  e.alias /\ g.nodes[e.to].zone \in {2} \cup {z \in {2} : e.to = zones[z].root}
        /\ find(g, NodeOf(HostC)) = Some(<<HostB, HostC>>)

\* C4 as amended: arc() reads no target zone when the via is a known alias:
\* the node a2 it makes belongs to A, its one arc is the alias arc of cost 0
\* to its canonical host a, and A's root gets the arc of cost 20 to a2.  No
\* arc leads into B, so after route() from A neither b nor c has a path;
\* the path of a2 is [a2] and the path of a is [a].
C4_AliasElisionAmended ==
    /\ (C4_Zones /\ arcs = <<>> /\ pc = "add") =>
          \A to \in 0..Len(zones) :
              arc(g, zones, 1, to, AliasA2, 20) = arc(g, zones, 1, 2, AliasA2, 20)
    /\ C4_Scenario =>
          /\ g.nodes[NodeOf(AliasA2)].zone = 1
          /\ g.nodes[NodeOf(AliasA2)].adj = <<Arc(NodeOf(HostA), 0, TRUE)>>
          /\ g.nodes[zones[1].root].adj =
                <<Arc(NodeOf(HostA), 10, FALSE), Arc(NodeOf(AliasA2), 20, FALSE)>>
          /\ \A u \in NodeIds : \A i \in 1..Len(g.nodes[u].adj) :
                g.nodes[u].adj[i].to \in {zones[2].root, NodeOf(HostB)} =>
                    u \in {zones[2].root, NodeOf(HostB)}
          /\ find(g, NodeOf(HostB)) = None
          /\ find(g, NodeOf(HostC)) = None
          /\ find(g, NodeOf(AliasA2)) = Some(<<AliasA2>>)
          /\ find(g, NodeOf(HostA)) = Some(<<HostA>>)

C4_Witness == C4_Scenario /\ g.nodes[NodeOf(AliasA2)].vis

\* The chain of C5: zones Z0..Zk of one host each, every Z(i) with i < k
\* having one arc of cost 20 via the host of Z(i+1), Z0 the only source.
HostOfZone(z) == HostMenu[stubs[z]][1][1]
Chain(k) ==
    /\ AllAdded
    /\ k >= 1
    /\ k + 1 <= Len(stubs)
    /\ \A z \in 1..(k + 1) : Len(HostMenu[stubs[z]]) = 1
    /\ Len(arcs) = k
    /\ \A i \in 1..k : arcs[i] = [frm |-> i, via |-> HostOfZone(i + 1), cost |-> 20]
    /\ srcs = {1}
ChainHosts(k) == [i \in 1..k |-> HostOfZone(i + 1)]
\* h1, ",", h2, ",", ..., h(n) as one name
RECURSIVE CommaJoined(_)
CommaJoined(n) ==
    IF n = 0 THEN <<>>
    ELSE IF n = 1 THEN HostOfZone(2)
    ELSE CommaJoined(n - 1) \o <<",">> \o HostOfZone(n + 1)

\* C5: on such a chain, trace(h(k)) returns [h1, ..., hk] and resolve(h(k))
\* returns (hk, the comma-joined h1..h(k-1)).
C5_ChainResolve ==
    \A k \in 1..Len(arcs) :
        (Chain(k) /\ ret.name = HostOfZone(k + 1)) =>
            /\ ret.op \in {"trace", "resolve"} => ret.trace = Some(ChainHosts(k))
            /\ ret.op = "resolve" =>
                  ret.resolve = Some(<<HostOfZone(k + 1), CommaJoined(k - 1)>>)

\* k = 2 over A = [a], B = [b], C = [c]: trace(c) = [b, c], resolve(c) = (c, b)
C5_Witness ==
    /\ Chain(2)
    /\ stubs = <<2, 3, 4>>
    /\ pc = "done"
    /\ ret = [op |-> "resolve", name |-> HostC,
              trace |-> Some(<<HostB, HostC>>), resolve |-> Some(<<HostC, HostB>>)]

(***************************************************************************)
(* The Config index.                                                       *)
(***************************************************************************)
Ready == pc = "ready"
Accumulative == {"identityfile", "certificatefile"}
\* the (opt, values) pairs of query(host)
QDirs(cf, host) ==
    {<<opt(dir(query(cf, host)[i])), query(cf, host)[i].values>> :
        i \in 1..Len(query(cf, host))}
Opts(D) == {d[1] : d \in D}
\* what attach(name, host) is to give name: the directives of host, and
\* "Hostname host" when host has no hostname
Inherited(cf, host) ==
    QDirs(cf, host) \cup
        (IF "hostname" \in Opts(QDirs(cf, host)) THEN {} ELSE {<<"hostname", <<host>>>>})
Attached == Ready /\ calls.op = "attach" /\ calls.name # calls.host
\* no synthesised block applied to the host
NoExt(cf, host) == \A b \in query_set(cf, host) : ~cf.blocks[b].ext

\* C6 as stated: after attach(N, H) with N # H, query(N) has the same set of
\* (opt, values) pairs as query(H), with Hostname H when H has no hostname.
C6_AttachFidelity ==
    Attached => QDirs(conf, calls.name) = Inherited(conf, calls.host)

\* C6 as amended: after attach(N, H) with N # H, when no synthesised block
\* applied to N before the call, query(N) has the pairs of query(H) (with
\* Hostname H when H has no hostname) and, besides them, exactly the pairs N
\* had before that are identityfile/certificatefile or whose option H does
\* not give; the result of query(H) is what it was before the call.
C6_AttachFidelityAmended ==
    (Attached /\ NoExt(calls.before, calls.name)) =>
        LET want == Inherited(conf, calls.host)
            had == QDirs(calls.before, calls.name)
        IN  /\ QDirs(conf, calls.host) = QDirs(calls.before, calls.host)
            /\ QDirs(conf, calls.name) =
                  want \cup {d \in had : d[1] \in Accumulative \/ d[1] \notin Opts(want)}

\* attach(N, H) on an N that had an option H does not give and another that
\* H overrides
C6_Witness ==
    /\ Attached
    /\ NoExt(calls.before, calls.name)
    /\ \E d \in QDirs(calls.before, calls.name) :
          d \notin QDirs(conf, calls.name)
    /\ \E d \in QDirs(calls.before, calls.name) :
          d \in QDirs(conf, calls.name) /\ d \notin Inherited(conf, calls.host)

\* C7: for every host and every option other than identityfile and
\* certificatefile, query(host) has at most one directive of that option
\* (lowercased), after parsing and any calls of attach, add_host and inject.
C7_SingleOption ==
    Ready =>
        \A h \in ConfHosts \cup {HostB} :
            \E q \in {query(conf, h)} :
                \A i, j \in 1..Len(q) :
                    (/\ opt(dir(q[i])) = opt(dir(q[j]))
                     /\ opt(dir(q[i])) \notin Accumulative) => i = j

\* two blocks that apply to a give `User u` and `user v`, and an inject() has run
C7_Witness ==
    /\ Ready
    /\ calls.op = "inject"
    /\ \E b, c \in query_set(conf, HostA) :
          /\ b # c
          /\ \E i \in 1..Len(conf.blocks[b].lines), j \in 1..Len(conf.blocks[c].lines) :
                /\ conf.blocks[b].lines[i]._opt = "User"
                /\ conf.blocks[c].lines[j]._opt = "user"
    /\ Cardinality({i \in 1..Len(query(conf, HostA)) :
                       opt(dir(query(conf, HostA)[i])) = "user"}) = 1

\* the identityfile/certificatefile lines of a sequence of lines
AccLines(lines) == SelectSeq(lines, LAMBDA l : opt(dir(l)) \in Accumulative)
Count(lines, l) == Cardinality({i \in 1..Len(lines) : lines[i] = l})
\* x is y with some of its elements left out
RECURSIVE IsSubseq(_, _)
IsSubseq(x, y) ==
    IF x = <<>> THEN TRUE
    ELSE IF y = <<>> THEN FALSE
    ELSE IF Head(x) = Head(y) THEN IsSubseq(Tail(x), Tail(y))
    ELSE IsSubseq(x, Tail(y))

\* C8: query(host) has every identityfile and certificatefile line of every
\* block that applies to the host, as many times as the blocks have it, in
\* input order: ascending ordinal of the origin block, then the order of the
\* lines in that block.
C8_Accumulative ==
    Ready =>
        \A h \in ConfHosts \cup {HostB} :
            \E q \in {AccLines(query(conf, h))} :
                LET B == query_set(conf, h)
                IN  /\ \A b \in B : \A k \in 1..Len(AccLines(trimmed(conf, b))) :
                          LET l == AccLines(trimmed(conf, b))[k]
                          IN  Count(q, l) =
                                  Cardinality({x \in B \X (1..MaxDoc + 4) :
                                      /\ x[2] <= Len(trimmed(conf, x[1]))
                                      /\ trimmed(conf, x[1])[x[2]] = l})
                    /\ \A i, j \in 1..Len(q) :
                          i < j => conf.blocks[q[i].blk].no <= conf.blocks[q[j].blk].no
                    /\ \A b \in 1..Len(conf.blocks) :
                          IsSubseq(SelectSeq(q, LAMBDA l : l.blk = b),
                                   AccLines(trimmed(conf, b)))

\* two IdentityFile lines under the default Host *, another wildcard block
\* that applies too: query(a) has both lines, in input order
C8_Witness ==
    /\ Ready
    /\ doc = <<3, 4, 7>>
    /\ Cardinality(query_set(conf, HostA)) = 2
    /\ LET q == query(conf, HostA)
       IN  /\ Len(q) = 2
           /\ q[1].values = <<<<"k", "1">>>>
           /\ q[2].values = <<<<"k", "2">>>>

(***************************************************************************)
(* The source predicate.                                                   *)
(***************************************************************************)
\* the zone's timezone is the host's: timezone * 3600 is its UTC offset
TimezoneHolds(z) == conds[z][1] # <<>> => env.offset = conds[z][1][1] * 900
\* the probe matches the subnet: an interface on exactly that network, or
\* (with the gateway probe) a gateway whose address lies in it
ProbeMatches(net) ==
    IF env.probe = "gateways"
    THEN \E gw \in env.gws : net.addr <= gw /\ gw < net.addr + pow2(WIDTH - net.len)
    ELSE \E i \in env.ints :
            /\ i[2] = net.len
            /\ net.addr <= i[1] /\ i[1] < net.addr + pow2(WIDTH - net.len)
SubnetHolds(z) ==
    conds[z][2] # <<>> => \E i \in 1..Len(conds[z][2]) : ProbeMatches(conds[z][2][i])
IsSource(z) == g.nodes[zones[z].root].dist = 0 /\ g.nodes[zones[z].root].prev = <<>>

\* C9: route() marks a zone as a source iff (it has no timezone or the
\* host's UTC offset in seconds is timezone * 3600) and (it lists no subnet
\* or the probe matches one of its subnets); a zone with neither is a source.
C9_SourcePredicate ==
    (pc = "routed" /\ Len(conds) = Len(zones)) =>
        \A z \in 1..Len(zones) :
            /\ z \in srcs <=> (TimezoneHolds(z) /\ SubnetHolds(z))
            /\ IsSource(z) <=> z \in srcs
            /\ (conds[z][1] = <<>> /\ conds[z][2] = <<>>) => IsSource(z)

\* a source with a timezone and two subnets of which only the second is
\* matched, beside a zone whose timezone holds and whose subnet does not
C9_Witness ==
    /\ pc = "routed"
    /\ Len(conds) = Len(zones)
    /\ \E z \in 1..Len(zones) :
          /\ conds[z][1] # <<>>
          /\ Len(conds[z][2]) = 2
          /\ ~ProbeMatches(conds[z][2][1])
          /\ ProbeMatches(conds[z][2][2])
          /\ IsSource(z)
    /\ \E z \in 1..Len(zones) :
          /\ conds[z][1] # <<>>
          /\ TimezoneHolds(z)
          /\ ~SubnetHolds(z)
          /\ ~IsSource(z)

(***************************************************************************)
(* The lock on the output file.                                            *)
(***************************************************************************)
\* the process is inside the body of `with wait_lock(...)`
InBody(p) == procs[p].pc \in {"body", "mtime", "preview", "generate", "write", "release"}

\* C10: at most one process at a time is inside the wait_lock body, it is
\* the process that holds the lock, and every write to the output file was
\* made by the process that held the lock at that moment.
C10_LockExclusive ==
    /\ \A p, q \in DOMAIN procs : (InBody(p) /\ InBody(q)) => p = q
    /\ \A p \in DOMAIN procs : InBody(p) => holder = p
    /\ \A i \in 1..Len(writes) : writes[i].by = writes[i].holder

\* a process has written and released, another that was blocked meanwhile
\* is inside the body now
C10_Witness ==
    /\ writes # <<>>
    /\ \E p, q \in DOMAIN procs :
          /\ p # q
          /\ procs[p].pc = "done"
          /\ writes[1].by = p
          /\ procs[q].waited
          /\ InBody(q)

\* C11: a process whose non-blocking attempt failed (waited) stays blocked
\* until the lock is free and takes it then; once it has the lock it only
\* previews and releases: it never reaches the mtime check, generate() or
\* the write, no write to the output file is its own, and it ends with the
\* lock released.
C11_WaitedInv ==
    /\ \A p \in DOMAIN procs :
          procs[p].waited => procs[p].pc \in {"blocked", "body", "preview", "release", "done"}
    /\ \A p \in DOMAIN procs : procs[p].pc = "blocked" => procs[p].waited /\ holder # p
    /\ \A i \in 1..Len(writes) : ~procs[writes[i].by].waited
C11_WaitedStep ==
    \A p \in DOMAIN procs :
       /\ (procs[p].pc = "blocked" /\ procs'[p].pc # "blocked")
             => (holder = 0 /\ holder' = p /\ procs'[p].pc = "body")
       /\ (procs[p].waited /\ procs[p].pc = "body") => procs'[p].pc \in {"body", "preview"}
       /\ (procs[p].waited /\ procs[p].pc = "preview")
             => (procs'[p].pc \in {"preview", "release"} /\ out' = out)
       /\ (procs[p].waited /\ procs[p].pc = "release" /\ procs'[p].pc # "release")
             => (procs'[p].pc = "done" /\ holder = p /\ holder' = 0)
C11_WaitedPreviews ==
    /\ []C11_WaitedInv
    /\ [][C11_WaitedStep]_vars
    /\ \A p \in 1..MaxProcs : (procs[p].pc = "blocked") ~> (procs[p].pc = "done" /\ holder # p)

\* a process that waited has previewed the file another process wrote, and
\* has released the lock
C11_Witness ==
    /\ writes # <<>>
    /\ \E p \in DOMAIN procs :
          /\ procs[p].waited
          /\ procs[p].pc = "done"
          /\ procs[p].buf = out.text
          /\ writes[1].by # p
          /\ holder = 0

\* C12: every process is run on the same config and zone files and in the
\* same environment, so once one run has written the output file no later
\* run rewrites it: the file keeps the mtime of the first write, however
\* far the clock has run since.
C12_CacheHit == writes # <<>> => (Len(writes) = 1 /\ out.mtime = writes[1].at)

(***************************************************************************)
(* The direct mode.                                                        *)
(***************************************************************************)
\* the run was on a host d.h with h managed and d.h not managed
DirectCase ==
    /\ pc = "done"
    /\ ret.op \in {"direct", "resolve", "generate"}
    /\ removeprefix(ret.name, <<"d", ".">>) # ret.name
    /\ ZoneSet_contains(g, removeprefix(ret.name, <<"d", ".">>))
    /\ ~ZoneSet_contains(g, ret.name)
\* route() has not run: no source, nothing queued, visited or reached
NotRouted ==
    /\ srcs = {}
    /\ g._q = <<>>
    /\ \A u \in 1..Len(g.nodes) :
          g.nodes[u].dist = INF /\ ~g.nodes[u].vis /\ g.nodes[u].prev = <<>>
\* the Config is as the parser left it (or was never made)
ParsedConfig == IF ret.op = "generate" THEN Config(Items(doc)) ELSE EmptyConfig

C14_PrintIdempotent == Len(writes) >= 2 => writes[2].text = writes[1].text

(***************************************************************************)
(* The names of the zone file.                                             *)
(***************************************************************************)
\* how many times a name is written in the host lists of the sections
RECURSIVE Occurrences(_, _, _)
Occurrences(name, names, i) ==
    IF i > Len(names) THEN 0
    ELSE (IF names[i] = name THEN 1 ELSE 0) + Occurrences(name, names, i + 1)
RECURSIVE SectionNames(_, _)
SectionNames(secs, i) ==
    IF i > Len(secs) THEN <<>> ELSE flat(HostMenu[secs[i]], 1) \o SectionNames(secs, i + 1)

\* C15: the sections the loader has accepted never write a name twice, so
\* the zone graph is only ever built from a file without duplicates; the
\* error of a duplicate names a name that is written twice up to and in the
\* section it names, and when it is raised the zone graph holds no zone, no
\* node and no arc.
C15_DuplicateName ==
    /\ \A n \in Vis : Occurrences(n, SectionNames(stubs, 1), 1) = 1
    /\ ret.op = "ValueError" =>
          /\ pc = "error"
          /\ Occurrences(ret.name, flat(HostMenu[ret.sect], 1), 1) >= 1
          /\ Occurrences(ret.name, SectionNames(Append(stubs, ret.sect), 1), 1) >= 2
          /\ g = EmptyZoneSet
          /\ zones = <<>>
          /\ arcs = <<>>

\* the section `c d:c` after an accepted section: c is named twice in it
C15_Witness ==
    /\ ret.op = "ValueError"
    /\ ret.name = HostC
    /\ ret.sect = 7
    /\ stubs # <<>>

(***************************************************************************)
(* The jumps injected.                                                     *)
(***************************************************************************)
\* the proxyjump directives query(T) gives
ProxyJumps(cf, T) == SelectSeq(query(cf, T), LAMBDA l : opt(dir(l)) = "proxyjump")

\* C16: after inject(), a named node whose path has two names or more has
\* one proxyjump directive in its query, `ProxyJump <the name before the
\* last of the path>`; for a named node whose path has one name, no block
\* made by inject that lists it consists of a ProxyJump line.
C16_InjectedJump ==
    (pc = "done" /\ calls.op = "inject") =>
       \A i \in 1..Len(g._nodes) :
          LET T == g._nodes[i][1]
              way == find(g, g._nodes[i][2])
          IN  (way.some /\ way.val # <<>>) =>
                 IF Len(way.val) >= 2
                 THEN /\ Len(ProxyJumps(conf, T)) = 1
                      /\ dir(ProxyJumps(conf, T)[1]) =
                            Directive("ProxyJump", <<way.val[Len(way.val) - 1]>>)
                 ELSE \A b \in Len(calls.before.blocks) + 1 .. Len(conf.blocks) :
                         (\E k \in 1..Len(conf.blocks[b].hosts) : conf.blocks[b].hosts[k] = T)
                            => ~\E v \in DirectHosts :
                                  conf.blocks[b].lines = <<Str("ProxyJump", <<v>>, <<>>)>>

(***************************************************************************)
(* The block attach() makes.                                               *)
(***************************************************************************)
Texts(lines) == [i \in 1..Len(lines) |-> text(lines[i])]
\* the last call was attach(name, host) with name # host
AfterAttach == pc = "ready" /\ calls.op = "attach" /\ calls.name # calls.host
\* the directives of query(host) that are not among those of query(name),
\* as the Config was before the call
Difference ==
    LET old == query(calls.before, calls.name)
    IN  SelectSeq(query(calls.before, calls.host),
                  LAMBDA l : ~\E k \in 1..Len(old) : Directive_eq(dir(l), dir(old[k])))
\* 'Hostname host', when query(host) has no hostname directive
HostnameLine ==
    IF \E i \in 1..Len(query(calls.before, calls.host)) :
          opt(dir(query(calls.before, calls.host)[i])) = "hostname"
    THEN <<>> ELSE <<Str("Hostname", <<calls.host>>, <<>>)>>
\* block b is the synthesised block the call made for name, or the one with
\* the same payload that it listed name under
AttachedBlock(b) ==
    /\ conf.blocks[b].ext
    /\ \E k \in 1..Len(conf.blocks[b].hosts) : conf.blocks[b].hosts[k] = calls.name
    /\ b > Len(calls.before.blocks) \/ conf.blocks[b].lines = calls.before.blocks[b].lines

\* C17, as stated: the payload is the difference in the order query(host)
\* gives it, then the Hostname line if query(host) has no hostname.
C17_AttachPayload ==
    AfterAttach =>
       \E b \in 1..Len(conf.blocks) :
          /\ AttachedBlock(b)
          /\ Texts(conf.blocks[b].lines) = Texts(Difference \o HostnameLine)

\* the difference in the order Config._query walks the blocks: the
\* synthesised blocks that apply to host first, then the input blocks
DifferenceByBlock ==
    LET old == query(calls.before, calls.name)
    IN  SelectSeq(_query(calls.before, calls.host).lines,
                  LAMBDA l : ~\E k \in 1..Len(old) : Directive_eq(dir(l), dir(old[k])))

\* C17, amended: the payload is the difference in the order _query yields
\* it, block by block with the synthesised blocks first (query() re-sorts
\* these lines by the block each was first read from, input blocks first),
\* then the Hostname line if query(host) has no hostname.
C17_AttachPayloadAmended ==
    AfterAttach =>
       /\ Len(conf.blocks) <= Len(calls.before.blocks) + 1
       /\ \E b \in 1..Len(conf.blocks) :
             /\ AttachedBlock(b)
             /\ Texts(conf.blocks[b].lines) = Texts(DifferenceByBlock \o HostnameLine)
             /\ Texts(sorted_lines(calls.before, DifferenceByBlock)) = Texts(Difference)

\* host had lines of a synthesised block and of an input block to hand
\* over, a Hostname among them, and the two orders differ
C17_Witness ==
    /\ AfterAttach
    /\ \E i, j \in 1..Len(Difference) :
          /\ calls.before.blocks[Difference[i].blk].ext
          /\ ~calls.before.blocks[Difference[j].blk].ext
    /\ HostnameLine = <<>>
    /\ Difference # DifferenceByBlock
    /\ Len(conf.blocks) = Len(calls.before.blocks) + 1

\* C18: after any attach and add_host calls no two synthesised blocks have
\* the same tuple of payload lines: add_host on the lines of an existing
\* synthesised block extends that block instead of making a new one.
C18_NoDuplicatePayload ==
    pc = "ready" =>
       \A b1, b2 \in 1..Len(conf.blocks) :
          (b1 # b2 /\ conf.blocks[b1].ext /\ conf.blocks[b2].ext)
             => Texts(conf.blocks[b1].lines) # Texts(conf.blocks[b2].lines)

\* the same, for the synthesised blocks that have a line
C18_NoDuplicateNonEmpty ==
    pc = "ready" =>
       \A b1, b2 \in 1..Len(conf.blocks) :
          (b1 # b2 /\ conf.blocks[b1].ext /\ conf.blocks[b2].ext
             /\ conf.blocks[b1].lines # <<>>)
             => Texts(conf.blocks[b1].lines) # Texts(conf.blocks[b2].lines)

\* C19: a process whose generate() raised never opens the output file for
\* writing, neither the raise nor its exit changes the file, and it ends
\* with the lock released.
C19_RaisedInv ==
    \A p \in DOMAIN procs :
       procs[p].raised =>
          /\ procs[p].pc \in {"release", "done"}
          /\ \A i \in 1..Len(writes) : writes[i].by # p
          /\ procs[p].pc = "done" => holder # p
C19_RaisedStep ==
    \A p \in DOMAIN procs :
       /\ (procs'[p].raised /\ procs'[p] # procs[p]) => (out' = out /\ writes' = writes)
       /\ (procs[p].raised /\ procs[p].pc = "release" /\ procs'[p].pc # "release")
             => (procs'[p].pc = "done" /\ holder = p /\ holder' = 0)
C19_NoWriteOnError ==
    /\ []C19_RaisedInv
    /\ [][C19_RaisedStep]_vars
    /\ \A p \in 1..MaxProcs : procs[p].raised ~> (procs[p].pc = "done" /\ holder # p)

\* generate() raised in a process that held the lock on an output file
\* written before; the process has exited, the file is as it was written
\* and the lock is free
C19_Witness ==
    \E p \in DOMAIN procs :
       /\ procs[p].raised
       /\ procs[p].pc = "done"
       /\ writes # <<>>
       /\ out = [exists |-> TRUE, mtime |-> writes[Len(writes)].at,
                 text |-> <<writes[Len(writes)].by, writes[Len(writes)].at>>]
       /\ holder = 0

(***************************************************************************)
(* The Environment.                                                        *)
(***************************************************************************)
\* the first n registered passes applied to k's raw value from the start,
\* once each in registration order, up to and with the first that raises
\* Abort: how many passes are called, and the value that results
Materialised(k, n) ==
    LET vals[j \in 0..n] ==
            IF j = 0 THEN applied[k].raw
            ELSE call_pass(ctx.passes[j], k, vals[j - 1]).v
        stops == {j \in 1..n : call_pass(ctx.passes[j], k, vals[j - 1]).abort}
        last == IF stops = {} THEN n
                ELSE CHOOSE j \in stops : \A j2 \in stops : j <= j2
    IN  [n |-> last, v |-> vals[last], aborted |-> stops # {}]

\* C20: a lookup of k returns what all the registered passes give on k's raw
\* value, applied once each in registration order and stopping at the first
\* Abort, whose result is kept; the passes called on k so far are those,
\* each once, in order; and once a pass raised Abort for k, no pass is
\* called on k again and every later lookup returns the Abort's result.
C20_LookupInv ==
    /\ got.some =>
          /\ got.val.v = Materialised(got.val.k, Len(ctx.passes)).v
          /\ Len(applied[got.val.k].called) = Materialised(got.val.k, Len(ctx.passes)).n
    /\ \A k \in DOMAIN applied :
          /\ applied[k].called = [j \in 1..Len(applied[k].called) |-> j]
          /\ Len(applied[k].called) = Materialised(k, applied[k].seen).n
          /\ ctx.args[k].i.some <=> ~Materialised(k, applied[k].seen).aborted
C20_AbortStep ==
    \A k \in DOMAIN applied :
       (~ctx.args[k].i.some /\ ctx'.args[k].i # Some(0))
          => /\ ctx'.args[k] = ctx.args[k]
             /\ applied'[k].called = applied[k].called
             /\ (got'.some /\ got'.val.k = k) => got'.val.v = ctx.args[k].v
C20_Lookup == []C20_LookupInv /\ [][C20_AbortStep]_vars

\* a key was looked up when its second or a later pass raised Abort, a pass
\* was added after that, and the key has been looked up again
C20_Witness ==
    /\ got.some
    /\ ~got.val.before.i.some
    /\ got.val.seen < Len(ctx.passes)
    /\ Len(applied[got.val.k].called) >= 2
    /\ got.val.v # applied[got.val.k].raw

(***************************************************************************)
(* The patterns of the Host headers.                                       *)
(***************************************************************************)
\* block b is among the blocks query(host) takes its lines from
Considered(b, host) == b \in query_set(conf, host)
\* block b has an un-negated pattern with a ? and no *, or a negated pattern
Has_question(b) ==
    \E i \in 1..Len(conf.blocks[b].hosts) :
       LET pat == conf.blocks[b].hosts[i]
       IN  /\ pat[1] # "!"
           /\ \E k \in 1..Len(pat) : pat[k] = "?"
           /\ \A k \in 1..Len(pat) : pat[k] # "*"
Has_negation(b) ==
    \E i \in 1..Len(conf.blocks[b].hosts) : conf.blocks[b].hosts[i][1] = "!"

\* C21: the lines of a block are considered by query(H) iff the block's
\* test(H) is true: a positive pattern matches H and no negated one does.
C21_ConsideredIffTest ==
    pc = "ready" =>
       \A b \in 1..Len(conf.blocks), H \in ConfHosts :
          Considered(b, H) <=> test(conf.blocks[b], H)

\* the same, for the blocks without a negated pattern and without a pattern
\* that has a ? and no *
C21_PlainPatterns ==
    pc = "ready" =>
       \A b \in 1..Len(conf.blocks), H \in ConfHosts :
          (~Has_question(b) /\ ~Has_negation(b))
             => (Considered(b, H) <=> test(conf.blocks[b], H))

\* C24: no block is listed twice in the wildcard list of the Config.
C24_WildcardOnce ==
    pc = "ready" =>
       \A i, j \in 1..Len(conf._wildcards) :
          i # j => conf._wildcards[i] # conf._wildcards[j]

\* the same, for the blocks with at most one pattern that has a *
C24_OneStarPattern ==
    pc = "ready" =>
       \A i, j \in 1..Len(conf._wildcards) :
          (i # j /\ conf._wildcards[i] = conf._wildcards[j])
             => Cardinality({n \in 1..Len(conf.blocks[conf._wildcards[i]].hosts) :
                   \E k \in 1..Len(conf.blocks[conf._wildcards[i]].hosts[n]) :
                      conf.blocks[conf._wildcards[i]].hosts[n][k] = "*"}) > 1

(***************************************************************************)
(* The smart host discovery.                                               *)
(***************************************************************************)
\* a zone file was loaded with the Config
Loaded == found.secs # <<>>
\* the names of all host groups of all zones after the load, in order
AllNames == flat(flat(found.hosts, 1), 1)
\* the names the zone file declares
DeclaredNames ==
    UNION {GroupNames(SmartSections[found.secs[k]].hosts) : k \in 1..Len(found.secs)}
\* the number of groups the discovery added to zone k
Discovered(k) == Len(found.hosts[k]) - Len(SmartSections[found.secs[k]].hosts)
\* host has a hostname that is an address in a subnet of a non-strict zone
SmartZonesOf(ip) ==
    {k \in 1..Len(found.secs) :
        /\ ~SmartSections[found.secs[k]].strict
        /\ \E i \in 1..Len(SmartSections[found.secs[k]].subnets) :
              ip_in(ip, IPv4Network(SmartSections[found.secs[k]].subnets[i]))}
Discoverable(host) ==
    \E i \in 1..Len(Config_hostnames(conf)) :
       /\ Config_hostnames(conf)[i][1] = host
       /\ IPv4Address(Config_hostnames(conf)[i][2]).some
       /\ SmartZonesOf(IPv4Address(Config_hostnames(conf)[i][2]).val) # {}

\* C22: a host that a zone declares, or that an earlier discovered group
\* holds as canonical host or alias, is not added again; after the load no
\* name is in two host groups, the load ends, and ZoneSet.add registers no
\* name twice.
C22_NoNameTwice ==
    Loaded =>
       /\ pc = "added"
       /\ \A i, j \in 1..Len(AllNames) : i # j => AllNames[i] # AllNames[j]
       /\ \A n \in 1..Len(found.groups) : \A k \in 1..Len(found.groups[n].names) :
             /\ found.groups[n].names[k] \notin DeclaredNames
             /\ \A m \in 1..(n - 1) : \A l \in 1..Len(found.groups[m].names) :
                   found.groups[n].names[k] # found.groups[m].names[l]
       /\ \A i, j \in 1..Len(g._nodes) : i # j => g._nodes[i][1] # g._nodes[j][1]
       /\ \A i, j \in 1..Len(g._canonical) : i # j => g._canonical[i][1] # g._canonical[j][1]
       /\ Keys(g._nodes) \cap Keys(g._canonical) = {}

\* a group was discovered with an alias that has an address of its own in a
\* smart zone's subnet
C22_Witness ==
    /\ Loaded
    /\ pc = "added"
    /\ \E n \in 1..Len(found.groups) : \E k \in 2..Len(found.groups[n].names) :
          Discoverable(found.groups[n].names[k])

\* a declared host has an address in a smart zone's subnet, and another
\* host was discovered
C22_DeclaredSkipped ==
    /\ Loaded
    /\ found.groups # <<>>
    /\ \E h \in DeclaredNames : Discoverable(h)

\* C23, as stated: the discovery adds at most one group to a zone.
C23_OneGroupPerZone ==
    Loaded => \A k \in 1..Len(found.secs) : Discovered(k) <= 1

\* the names that follow host in the sorted hosts of the Config that are
\* not in vis, as far as they start with host
RunAfter(host, vis) ==
    LET rest == sorted_names({h \in Config_hosts(conf) : h \notin vis /\ str_lt(host, h)})
        stop == IF \E i \in 1..Len(rest) : ~startswith(rest[i], host)
                THEN (CHOOSE i \in 1..Len(rest) :
                         /\ ~startswith(rest[i], host)
                         /\ \A j \in 1..(i - 1) : startswith(rest[j], host)) - 1
                ELSE Len(rest)
    IN  SubSeq(rest, 1, stop)

\* C23, amended: the discovery adds one group for every discovered canonical
\* host, to the first non-strict zone of the file with a subnet that holds
\* the host's address; a zone may get several groups and a strict zone gets
\* none.  A group is the canonical host and the run of names that follow it
\* and start with it; the canonical hosts are the discoverable hosts that
\* are neither declared nor aliases of a group.
C23_OneGroupPerHost ==
    Loaded =>
       /\ \A k \in 1..Len(found.secs) :
             /\ SmartSections[found.secs[k]].strict => Discovered(k) = 0
             /\ Discovered(k) = Cardinality({n \in 1..Len(found.groups) : found.groups[n].zone = k})
       /\ \A n \in 1..Len(found.groups) :
             /\ SmartZonesOf(found.groups[n].ip) # {}
             /\ \A k \in SmartZonesOf(found.groups[n].ip) : found.groups[n].zone <= k
             /\ found.groups[n].zone \in SmartZonesOf(found.groups[n].ip)
             /\ found.groups[n].names =
                   <<found.groups[n].names[1]>>
                      \o RunAfter(found.groups[n].names[1], found.groups[n].vis)
             /\ \A m \in 1..Len(found.groups) :
                   m # n => found.groups[m].names[1] # found.groups[n].names[1]
       /\ {found.groups[n].names[1] : n \in 1..Len(found.groups)} =
             {h \in Config_hosts(conf) :
                 /\ Discoverable(h)
                 /\ h \notin DeclaredNames
                 /\ \A n \in 1..Len(found.groups) : \A k \in 2..Len(found.groups[n].names) :
                       found.groups[n].names[k] # h}

\* a zone got two discovered groups, and an address lies in the subnets of
\* two smart zones
C23_Witness ==
    /\ Loaded
    /\ \E k \in 1..Len(found.secs) : Discovered(k) >= 2
    /\ \E n \in 1..Len(found.groups) : Cardinality(SmartZonesOf(found.groups[n].ip)) = 2

====
